---- MODULE Spec2Model ----
(***************************************************************************)
(* Directory mirroring over a length-prefixed message protocol:            *)
(* block codec, JSON wire conversion, server-side FileActionHandler,       *)
(* client-side RequestDispatcher and the per-connection sessions.          *)
(***************************************************************************)
EXTENDS Integers, Sequences, FiniteSets, TLC

(***************************************************************************)
(* Bounds of the model.                                                    *)
(***************************************************************************)
\* the block size the handler is constructed with (a constructor parameter)
BlockSize == 2
\* longest file content: one byte more than a block, so files have 0..2 blocks
MaxFileLen == BlockSize + 1
\* byte values
Bytes == {0, 1}
\* file names and the two places a file can be in: the managed directory
\* itself ("root") or a subdirectory of it ("sub")
Names == {"a", "b"}
AllPaths == <<<<"root", "a">>, <<"root", "b">>, <<"sub", "a">>>>

ByteStrings(n) == UNION {[1..k -> Bytes] : k \in 0..n}

(***************************************************************************)
(* Python values.                                                          *)
(***************************************************************************)
\* None and False, as values that can sit where a dict is expected
PyNone == [none |-> TRUE]
PyFalse == [bool |-> FALSE]
\* a dict key is an int or a str; str keys here are always decimal numerals,
\* held by their number
IntKey(i) == <<"int", i>>
StrKey(i) == <<"str", i>>

Range(s) == {s[i] : i \in DOMAIN s}
SeqMap(Op(_), s) == [i \in DOMAIN s |-> Op(s[i])]

(***************************************************************************)
(* Action codes.                                                           *)
(***************************************************************************)
ENUMERATE_REMOTE_DIR_ACTION == 1
NEW_FILE_ACTION == 2
MOVED_FILE_ACTION == 3
DELETED_FILE_ACTION == 4
FILE_RECIPE_ACTION == 5
UPDATED_FILE_ACTION == 6

(***************************************************************************)
(* Block codec (common/fileactions.py).                                    *)
(***************************************************************************)
\* sha256 of a byte string, as a hex digest: collision-free
Sha256(bytes) == <<"sha256", bytes>>

\* base64 text of a byte string, and its decoding
b64encode(bytes) == <<"b64", bytes>>
b64decode(text) == text[2]

\* the loop `for block in iter(lambda: f.read(block_size), b"")`: the blocks
\* read, in order, until read returns b""
RECURSIVE ReadBlocks(_, _)
ReadBlocks(rest, block_size) ==
    IF rest = <<>> \/ block_size = 0 THEN <<>>
    ELSE LET n == IF Len(rest) < block_size THEN Len(rest) ELSE block_size
         IN  <<SubSeq(rest, 1, n)>> \o ReadBlocks(SubSeq(rest, n + 1, Len(rest)), block_size)

\* faulty variant of the block counter: it starts at 1
BlockDict_from_one(blks) == [k \in {IntKey(i) : i \in 1..Len(blks)} |-> blks[k[2]]]

\* a list of blocks as the dict block_counter -> block
BlockDict(blks) == [k \in {IntKey(i - 1) : i \in 1..Len(blks)} |-> blks[k[2] + 1]]

RECURSIVE Flatten(_)
Flatten(blks) == IF blks = <<>> THEN <<>> ELSE Head(blks) \o Flatten(Tail(blks))

hash_file(content, block_size) == Sha256(Flatten(ReadBlocks(content, block_size)))

\* faulty variant of create_hashed_block_list: one hash object is updated
\* block after block, so each digest covers the file up to its block
create_hashed_block_list_running(content, block_size) ==
    LET blks == ReadBlocks(content, block_size)
    IN  BlockDict([i \in 1..Len(blks) |-> Sha256(Flatten(SubSeq(blks, 1, i)))])

\* faulty variant of create_hashed_block_list: a block shorter than the
\* block size is not hashed
create_hashed_block_list_whole(content, block_size) ==
    BlockDict(SeqMap(Sha256, ReadBlocks(SubSeq(content, 1, Len(content) - (Len(content) % block_size)),
                                        block_size)))

create_hashed_block_list(content, block_size) ==
    BlockDict(SeqMap(Sha256, ReadBlocks(content, block_size)))

create_block_list(content, block_size) == BlockDict(ReadBlocks(content, block_size))

\* sorted(blocks.keys()) over int keys, then the blocks written in that order
RECURSIVE WriteSorted(_, _)
WriteSorted(blocks, keys) ==
    IF keys = {} THEN <<>>
    ELSE LET k == CHOOSE x \in keys : \A y \in keys : x[2] <= y[2]
         IN  blocks[k] \o WriteSorted(blocks, keys \ {k})

\* faulty variant of create_file_from_blks: the keys are taken in
\* descending order
RECURSIVE WriteDescending(_, _)
WriteDescending(blocks, keys) ==
    IF keys = {} THEN <<>>
    ELSE LET k == CHOOSE x \in keys : \A y \in keys : x[2] >= y[2]
         IN  blocks[k] \o WriteDescending(blocks, keys \ {k})
create_file_from_blks_descending(blocks) == WriteDescending(blocks, DOMAIN blocks)

create_file_from_blks(blocks) == WriteSorted(blocks, DOMAIN blocks)

(***************************************************************************)
(* A directory is a function from the paths of its files to their bytes.   *)
(***************************************************************************)
Root(filename) == <<"root", filename>>
Exists(dir, filename) == Root(filename) \in DOMAIN dir
WriteFile(dir, path, bytes) == [p \in DOMAIN dir \cup {path} |-> IF p = path THEN bytes ELSE dir[p]]
RemoveFile(dir, path) == [p \in DOMAIN dir \ {path} |-> dir[p]]

FileEntry(dir, path, block_size) ==
    [filename |-> path[2], file_size |-> Len(dir[path]), sha256 |-> hash_file(dir[path], block_size)]

\* glob('**/*') descends into subdirectories; every file is listed under its
\* bare name (f.name)
GlobFiles(dir) == SelectSeq(AllPaths, LAMBDA p : p \in DOMAIN dir)

enumerate_directory(dir, block_size) ==
    LET files == GlobFiles(dir)
    IN  [i \in DOMAIN files |-> FileEntry(dir, files[i], block_size)]

(***************************************************************************)
(* JSON on the wire (common/message.py encode_json / decode_json):         *)
(* json.dumps writes every dict key as a string, so a dict keyed by ints   *)
(* comes back keyed by their numerals.                                     *)
(***************************************************************************)
JsonDict(d) ==
    [k \in {StrKey(key[2]) : key \in DOMAIN d} |->
        d[CHOOSE key \in DOMAIN d : key[2] = k[2]]]

\* decode_json(encode_json(obj)) of a request's content
JsonRequest(content) ==
    IF content.action = UPDATED_FILE_ACTION
    THEN [content EXCEPT !.data.recipe_info.blocks = JsonDict(@)]
    ELSE content

\* decode_json(encode_json(obj)) of a response
JsonResponse(obj) ==
    IF "recipe_info" \in DOMAIN obj.response
    THEN [obj EXCEPT !.response.recipe_info.recipe = JsonDict(@)]
    ELSE obj

(***************************************************************************)
(* FileActionHandler (common/fileactions.py).  Every operation yields the  *)
(* directory afterwards and either a result or a raised exception.         *)
(***************************************************************************)
Returned(dir, result) == [dir |-> dir, raised |-> FALSE, result |-> result]
Raised(dir) == [dir |-> dir, raised |-> TRUE, result |-> PyNone]

\* faulty variant of create_new_file: no test that the name is taken
create_new_file_overwrite(dir, filename, file_data) ==
    Returned(WriteFile(dir, Root(filename), file_data),
             [action |-> NEW_FILE_ACTION, msg |-> "Successfully uploaded"])

create_new_file(dir, filename, file_data) ==
    IF Exists(dir, filename)
    THEN Returned(dir, [action |-> NEW_FILE_ACTION, msg |-> "already exists, cannot save as new"])
    ELSE Returned(WriteFile(dir, Root(filename), file_data),
                  [action |-> NEW_FILE_ACTION, msg |-> "Successfully uploaded"])

\* faulty variant of move_file: the file is copied, the source stays
move_file_copy(dir, source_filename, destination_filename) ==
    IF ~Exists(dir, source_filename)
    THEN Returned(dir, [action |-> MOVED_FILE_ACTION, msg |-> "source doesn't exist and cannot be renamed"])
    ELSE IF Exists(dir, destination_filename)
    THEN Returned(dir, PyFalse)
    ELSE Returned(WriteFile(dir, Root(destination_filename), dir[Root(source_filename)]),
                  [action |-> MOVED_FILE_ACTION, msg |-> "Successfully moved file"])

\* faulty variant of move_file: no test that the destination is taken
move_file_overwrite(dir, source_filename, destination_filename) ==
    IF ~Exists(dir, source_filename)
    THEN Returned(dir, [action |-> MOVED_FILE_ACTION, msg |-> "source doesn't exist and cannot be renamed"])
    ELSE Returned(RemoveFile(WriteFile(dir, Root(destination_filename), dir[Root(source_filename)]),
                             Root(source_filename)),
                  [action |-> MOVED_FILE_ACTION, msg |-> "Successfully moved file"])

move_file(dir, source_filename, destination_filename) ==
    IF ~Exists(dir, source_filename)
    THEN Returned(dir, [action |-> MOVED_FILE_ACTION, msg |-> "source doesn't exist and cannot be renamed"])
    ELSE IF Exists(dir, destination_filename)
    THEN Returned(dir, PyFalse)
    ELSE Returned(RemoveFile(WriteFile(dir, Root(destination_filename), dir[Root(source_filename)]),
                             Root(source_filename)),
                  [action |-> MOVED_FILE_ACTION, msg |-> "Successfully moved file"])

\* faulty variant of delete_file: unlink without the test, which raises
\* FileNotFoundError on a missing file
delete_file_unchecked(dir, filename) ==
    IF Exists(dir, filename)
    THEN Returned(RemoveFile(dir, Root(filename)),
                  [action |-> DELETED_FILE_ACTION, msg |-> "Successfully deleted"])
    ELSE Raised(dir)

delete_file(dir, filename) ==
    IF Exists(dir, filename)
    THEN Returned(RemoveFile(dir, Root(filename)),
                  [action |-> DELETED_FILE_ACTION, msg |-> "Successfully deleted"])
    ELSE Returned(dir, [action |-> DELETED_FILE_ACTION, msg |-> "doesn't exist, cannot delete"])

handler_enumerate_directory(dir, block_size) ==
    Returned(dir, [action |-> ENUMERATE_REMOTE_DIR_ACTION, block_size |-> block_size,
                   file_info |-> enumerate_directory(dir, block_size)])

\* faulty variant of create_file_recipe: a missing file is answered with a
\* status instead of an exception
create_file_recipe_status(dir, block_size, filename) ==
    IF ~Exists(dir, filename)
    THEN Returned(dir, [action |-> FILE_RECIPE_ACTION, msg |-> "doesn't exist, cannot create recipe"])
    ELSE Returned(dir, [action |-> FILE_RECIPE_ACTION,
                        recipe_info |-> [filename |-> filename, block_size |-> block_size,
                                         hash_algorithm |-> "sha256",
                                         recipe |-> create_hashed_block_list(dir[Root(filename)], block_size)]])

create_file_recipe(dir, block_size, filename) ==
    IF ~Exists(dir, filename)
    THEN Raised(dir)
    ELSE Returned(dir, [action |-> FILE_RECIPE_ACTION,
                        recipe_info |-> [filename |-> filename, block_size |-> block_size,
                                         hash_algorithm |-> "sha256",
                                         recipe |-> create_hashed_block_list(dir[Root(filename)], block_size)]])

\* {int(k): base64.b64decode(v) for k, v in blocks.items()}
BlocksToUpdate(blocks) ==
    [k \in {IntKey(key[2]) : key \in DOMAIN blocks} |->
        b64decode(blocks[CHOOSE key \in DOMAIN blocks : key[2] = k[2]])]

\* faulty variant of the merge: {**blocks_to_update, **file_blocks}, the
\* file's own block wins on a shared index
MergeBlocks_file_wins(file_blocks, blocks_to_update) ==
    [k \in DOMAIN file_blocks \cup DOMAIN blocks_to_update |->
        IF k \in DOMAIN file_blocks THEN file_blocks[k] ELSE blocks_to_update[k]]

\* {**file_blocks, **blocks_to_update}: the right-most dict takes precedence
MergeBlocks(file_blocks, blocks_to_update) ==
    [k \in DOMAIN file_blocks \cup DOMAIN blocks_to_update |->
        IF k \in DOMAIN blocks_to_update THEN blocks_to_update[k] ELSE file_blocks[k]]

\* faulty variant of update_file: no test that the file exists, open('wb+')
\* creates it from the payload's blocks
update_file_creating(dir, recipe) ==
    LET filename == recipe.filename
        blocks_to_update == BlocksToUpdate(recipe.blocks)
        file_blocks == IF Exists(dir, filename)
                       THEN create_block_list(dir[Root(filename)], recipe.block_size)
                       ELSE <<>>
    IN  Returned(WriteFile(dir, Root(filename),
                           create_file_from_blks(MergeBlocks(file_blocks, blocks_to_update))),
                 [action |-> UPDATED_FILE_ACTION, msg |-> "Successfully updated"])

update_file(dir, recipe) ==
    LET filename == recipe.filename
        blocks_to_update == BlocksToUpdate(recipe.blocks)
    IN  IF ~Exists(dir, filename)
        THEN Returned(dir, [action |-> UPDATED_FILE_ACTION, msg |-> "doesn't exist and cannot be updated"])
        ELSE LET file_blocks == create_block_list(dir[Root(filename)], recipe.block_size)
                 updated_blocks == MergeBlocks(file_blocks, blocks_to_update)
             IN  Returned(WriteFile(dir, Root(filename), create_file_from_blks(updated_blocks)),
                          [action |-> UPDATED_FILE_ACTION, msg |-> "Successfully updated"])

\* handle_request: the result wrapped as dict(response=result); an unknown
\* action code ends in dict(action, "...") , which raises TypeError
handle_request(dir, block_size, request) ==
    LET action == request.action
        data == request.data
        r == CASE action = ENUMERATE_REMOTE_DIR_ACTION -> handler_enumerate_directory(dir, block_size)
               [] action = NEW_FILE_ACTION ->
                    create_new_file(dir, data.filename,
                                    IF "filedata" \in DOMAIN data THEN b64decode(data.filedata) ELSE <<>>)
               [] action = MOVED_FILE_ACTION -> move_file(dir, data.source_filename, data.destination_filename)
               [] action = DELETED_FILE_ACTION -> delete_file(dir, data.filename)
               [] action = FILE_RECIPE_ACTION -> create_file_recipe(dir, block_size, data.filename)
               [] action = UPDATED_FILE_ACTION -> update_file(dir, data.recipe_info)
               [] OTHER -> Raised(dir)
    IN  [r EXCEPT !.result = [response |-> @]]

(***************************************************************************)
(* RequestDispatcher (client/client_requests.py): the requests it builds.  *)
(***************************************************************************)
create_request(action, data) ==
    [type |-> "text/json", encoding |-> "utf-8", content |-> [action |-> action, data |-> data]]

\* faulty variant of create_new_file_request: the content is not read
new_file_request_empty(dir, filename) ==
    create_request(NEW_FILE_ACTION, [filename |-> filename, filedata |-> b64encode(<<>>)])

new_file_request(dir, filename) ==
    create_request(NEW_FILE_ACTION, [filename |-> filename, filedata |-> b64encode(dir[Root(filename)])])

move_file_request(src_filename, dest_filename) ==
    create_request(MOVED_FILE_ACTION,
                   [source_filename |-> src_filename, destination_filename |-> dest_filename])

\* faulty variant of delete_file_request: the action code of NewFile
delete_file_request_new_file(filename) ==
    create_request(NEW_FILE_ACTION, [filename |-> filename])

delete_file_request(filename) == create_request(DELETED_FILE_ACTION, [filename |-> filename])

update_file_request(filename) == create_request(FILE_RECIPE_ACTION, [filename |-> filename])

enumerate_remote_directory == create_request(ENUMERATE_REMOTE_DIR_ACTION, PyNone)

\* set(d.items())
Items(d) == {<<k, d[k]>> : k \in DOMAIN d}

\* dict(src_blk_set.difference(dest_block_set)).keys()
UpdateBlocksKeys(hash_blocks, recipe) == {item[1] : item \in Items(hash_blocks) \ Items(recipe)}

\* _update_file_by_recipe: the UpdateFile request for a file that exists locally
update_by_recipe_request(dir, recipe_info) ==
    LET filename == recipe_info.filename
        block_size == recipe_info.block_size
        hash_blocks == create_hashed_block_list(dir[Root(filename)], block_size)
        update_blocks_keys == UpdateBlocksKeys(hash_blocks, recipe_info.recipe)
        src_blks == create_block_list(dir[Root(filename)], block_size)
        update_blks == [k \in {x \in DOMAIN src_blks : x \in update_blocks_keys} |-> b64encode(src_blks[k])]
    IN  create_request(UPDATED_FILE_ACTION,
                       [recipe_info |-> [filename |-> filename, block_size |-> block_size,
                                         blocks |-> update_blks]])

(***************************************************************************)
(* _directory_synch: the four lists, and the requests issued from them.    *)
(***************************************************************************)
InList(x, list) == \E i \in DOMAIN list : list[i] = x
Filename(entry) == entry.filename

directory_synch_lists(remote_file_info, local_dir_listing) ==
    LET same_on_both == SelectSeq(remote_file_info, LAMBDA i : InList(i, local_dir_listing))
        diff_on_remote == SelectSeq(remote_file_info, LAMBDA i : ~InList(i, local_dir_listing))
        diff_on_local == SelectSeq(local_dir_listing, LAMBDA i : ~InList(i, remote_file_info))
        diff_remote_file_names == SeqMap(Filename, diff_on_remote)
        diff_local_file_name == SeqMap(Filename, diff_on_local)
    IN  [same_on_both |-> SeqMap(Filename, same_on_both),
         on_both_different |->
            SeqMap(Filename, SelectSeq(diff_on_local, LAMBDA f : InList(f.filename, diff_remote_file_names))),
         on_local_only |->
            SeqMap(Filename, SelectSeq(diff_on_local, LAMBDA f : ~InList(f.filename, diff_remote_file_names))),
         on_remote_only |->
            SeqMap(Filename, SelectSeq(diff_on_remote, LAMBDA f : ~InList(f.filename, diff_local_file_name)))]

\* the three loops of _directory_synch, as the calls they make, in order
OpUpdate(filename) == [op |-> "update_file_request", filename |-> filename]
OpDelete(filename) == [op |-> "delete_file_request", filename |-> filename]
OpCreate(filename) == [op |-> "create_new_file_request", filename |-> filename]
OpByRecipe(recipe_info) == [op |-> "_update_file_by_recipe", recipe_info |-> recipe_info]

\* faulty variant of the three loops: the remote-only files are updated
\* (their recipe fetched) instead of deleted
directory_synch_calls_pull(lists) ==
    SeqMap(OpUpdate, lists.on_both_different)
        \o SeqMap(OpUpdate, lists.on_remote_only)
        \o SeqMap(OpCreate, lists.on_local_only)

directory_synch_calls(lists) ==
    SeqMap(OpUpdate, lists.on_both_different)
        \o SeqMap(OpDelete, lists.on_remote_only)
        \o SeqMap(OpCreate, lists.on_local_only)

\* on_response_callback: the calls the callback makes for a response
on_response_callback(response, dir) ==
    IF response.action = FILE_RECIPE_ACTION
    THEN <<OpByRecipe(response.recipe_info)>>
    ELSE IF response.action = ENUMERATE_REMOTE_DIR_ACTION
    THEN directory_synch_calls(
            directory_synch_lists(response.file_info, enumerate_directory(dir, response.block_size)))
    ELSE <<>>

(***************************************************************************)
(* Wire framing (common/message.py).  A byte is either one of the two      *)
(* bytes of the big-endian header length or one byte of a JSON text; the   *)
(* i-th byte of the text of obj is JsonByte(obj, i).                       *)
(***************************************************************************)
\* the number of bytes of the JSON text of a header, a request, a response
HeaderBytes == 2
RequestBytes == 1
ResponseBytes == 2

U8(n) == [u8 |-> n]
JsonByte(obj, i) == [json |-> obj, at |-> i]

\* what json.dumps then json.load make of an object
Json(obj) ==
    IF "response" \in DOMAIN obj THEN JsonResponse(obj)
    ELSE IF "action" \in DOMAIN obj THEN JsonRequest(obj)
    ELSE obj
JsonLen(obj) ==
    IF "response" \in DOMAIN obj THEN ResponseBytes
    ELSE IF "action" \in DOMAIN obj THEN RequestBytes
    ELSE HeaderBytes

encode_json(obj) == [i \in 1..JsonLen(obj) |-> JsonByte(Json(obj), i)]

\* decode_json raises unless the bytes are one whole JSON text
Decodable(json_bytes) ==
    /\ json_bytes # <<>>
    /\ "json" \in DOMAIN json_bytes[1]
    /\ json_bytes = [i \in 1..JsonLen(json_bytes[1].json) |-> JsonByte(json_bytes[1].json, i)]
decode_json(json_bytes) == json_bytes[1].json

\* struct.pack(">H", n) and struct.unpack(">H", two bytes)[0]
PackH(n) == <<U8(n \div 256), U8(n % 256)>>
UnpackH(two) == two[1].u8 * 256 + two[2].u8

\* faulty variant of create_message: content-length counts the header too
create_message_total_length(content_bytes, content_encoding) ==
    LET header == [byteorder |-> "little", content_encoding |-> content_encoding,
                   content_length |-> HeaderBytes + Len(content_bytes)]
        header_bytes == encode_json(header)
    IN  PackH(Len(header_bytes)) \o header_bytes \o content_bytes

create_message(content_bytes, content_encoding) ==
    LET header == [byteorder |-> "little", content_encoding |-> content_encoding,
                   content_length |-> Len(content_bytes)]
        header_bytes == encode_json(header)
    IN  PackH(Len(header_bytes)) \o header_bytes \o content_bytes

Drop(buffer, n) == SubSeq(buffer, n + 1, Len(buffer))
Take(buffer, n) == SubSeq(buffer, 1, n)

(***************************************************************************)
(* AbstractMessage: the session of one socket.  header_length is <<>> for  *)
(* None and <<n>> once parsed; header, request and response are PyNone     *)
(* until parsed.  A step that raised leaves raised = TRUE.                 *)
(***************************************************************************)
AbstractMessage(events) ==
    [sock |-> "open", events |-> events, receive_buffer |-> <<>>, send_buffer |-> <<>>,
     header_length |-> <<>>, header |-> PyNone, raised |-> FALSE]

\* close(): unregistered from the selector, socket closed
close(msg) == [msg EXCEPT !.sock = "closed", !.events = ""]

process_preheader(msg) ==
    IF Len(msg.receive_buffer) >= 2
    THEN [msg EXCEPT !.header_length = <<UnpackH(Take(msg.receive_buffer, 2))>>,
                     !.receive_buffer = Drop(@, 2)]
    ELSE msg

RequiredHeaders == {"byteorder", "content_length", "content_encoding"}

process_header(msg) ==
    LET length == msg.header_length[1]
    IN  IF Len(msg.receive_buffer) >= length
        THEN IF ~Decodable(Take(msg.receive_buffer, length))
             THEN [msg EXCEPT !.raised = TRUE]
             ELSE LET header == decode_json(Take(msg.receive_buffer, length))
                  IN  [msg EXCEPT !.header = header,
                                  !.receive_buffer = Drop(@, length),
                                  !.raised = ~(RequiredHeaders \subseteq DOMAIN header)]
        ELSE msg

\* faulty variant of _read: recv returning b"" is taken for no data
PeerClosed_ignored(msg) == msg

\* _read when recv returned b"": RuntimeError, nothing else is done
PeerClosed(msg) == [msg EXCEPT !.raised = TRUE]

\* faulty variant of Read: the bytes received replace the buffer
Read_replacing(msg, data) ==
    LET m1 == [msg EXCEPT !.receive_buffer = data]
        m2 == IF m1.header_length = <<>> THEN process_preheader(m1) ELSE m1
    IN  IF m2.header_length # <<>> /\ m2.header = PyNone THEN process_header(m2) ELSE m2

\* faulty variant of Read: BlockingIOError is not caught
Read_unswallowed(msg, data) ==
    LET m1 == [msg EXCEPT !.receive_buffer = @ \o data]
        m2 == IF m1.header_length = <<>> THEN process_preheader(m1) ELSE m1
    IN  IF data = <<>> THEN [msg EXCEPT !.raised = TRUE]
        ELSE IF m2.header_length # <<>> /\ m2.header = PyNone THEN process_header(m2) ELSE m2

\* _read with the bytes recv returned (<<>> when recv raised BlockingIOError),
\* then AbstractMessage.read
Read(msg, data) ==
    LET m1 == [msg EXCEPT !.receive_buffer = @ \o data]
        m2 == IF m1.header_length = <<>> THEN process_preheader(m1) ELSE m1
    IN  IF m2.header_length # <<>> /\ m2.header = PyNone THEN process_header(m2) ELSE m2

(***************************************************************************)
(* ServerSideMessage.                                                      *)
(***************************************************************************)
ServerSideMessage ==
    [f \in DOMAIN AbstractMessage("r") \cup {"request", "response_created", "decoded", "created", "actions"} |->
        CASE f = "request" -> PyNone
          [] f = "response_created" -> FALSE
          [] f = "decoded" -> 0      \* history: requests decoded on this connection
          [] f = "created" -> 0      \* history: response frames built on this connection
          [] f = "actions" -> 0      \* history: calls of handle_request on this connection,
                                     \* kept where the connections face raw clients
          [] OTHER -> AbstractMessage("r")[f]]

\* faulty variant of process_request: the payload stays in the buffer
process_request_untrimmed(msg) ==
    LET length == msg.header.content_length
    IN  IF ~(Len(msg.receive_buffer) >= length) THEN msg
        ELSE IF ~Decodable(Take(msg.receive_buffer, length))
        THEN [msg EXCEPT !.raised = TRUE]
        ELSE [msg EXCEPT !.request = decode_json(Take(msg.receive_buffer, length)),
                         !.decoded = @ + 1,
                         !.events = "w"]

process_request(msg) ==
    LET length == msg.header.content_length
    IN  IF ~(Len(msg.receive_buffer) >= length) THEN msg
        ELSE IF ~Decodable(Take(msg.receive_buffer, length))
        THEN [msg EXCEPT !.receive_buffer = Drop(@, length), !.raised = TRUE]
        ELSE [msg EXCEPT !.receive_buffer = Drop(@, length),
                         !.request = decode_json(Take(msg.receive_buffer, length)),
                         !.decoded = @ + 1,
                         !.events = "w"]

\* ServerSideMessage.read with the bytes recv returned
server_read(msg, data) ==
    LET m == Read(msg, data)
    IN  IF ~m.raised /\ m.header # PyNone /\ m.request = PyNone THEN process_request(m) ELSE m

\* faulty variant of create_response: response_created is never set
create_response_unflagged(msg, content) ==
    [msg EXCEPT !.created = @ + 1,
                !.send_buffer = @ \o create_message(encode_json(content), "utf-8")]

create_response(msg, content) ==
    [msg EXCEPT !.response_created = TRUE,
                !.created = @ + 1,
                !.send_buffer = @ \o create_message(encode_json(content), "utf-8")]

\* faulty variant of _write: the message is closed after any send
server__write_close_early(msg, sent) ==
    IF msg.send_buffer = <<>> \/ sent = 0 THEN msg
    ELSE close([msg EXCEPT !.send_buffer = Drop(@, sent)])

\* ServerSideMessage._write when send took `sent` bytes (0: BlockingIOError)
server__write(msg, sent) ==
    IF msg.send_buffer = <<>> \/ sent = 0 THEN msg
    ELSE LET m == [msg EXCEPT !.send_buffer = Drop(@, sent)]
         IN  IF m.send_buffer = <<>> THEN close(m) ELSE m

(***************************************************************************)
(* ClientSideMessage.                                                      *)
(***************************************************************************)
ClientSideMessage(request) ==
    [f \in DOMAIN AbstractMessage("rw") \cup {"request", "request_queued", "response", "queued", "parsed"} |->
        CASE f = "request" -> request
          [] f = "request_queued" -> FALSE
          [] f = "response" -> PyNone
          [] f = "queued" -> 0       \* history: request frames queued on this connection
          [] f = "parsed" -> 0       \* history: responses decoded on this connection
          [] OTHER -> AbstractMessage("rw")[f]]

queue_request(msg) ==
    [msg EXCEPT !.send_buffer = @ \o create_message(encode_json(msg.request.content), msg.request.encoding),
                !.request_queued = TRUE,
                !.queued = @ + 1]

\* ClientSideMessage.write when send took `sent` bytes (0: BlockingIOError)
client_write(msg, sent) ==
    LET m1 == IF ~msg.request_queued THEN queue_request(msg) ELSE msg
        n == IF sent < Len(m1.send_buffer) THEN sent ELSE Len(m1.send_buffer)
        m2 == [m1 EXCEPT !.send_buffer = Drop(@, n)]
    IN  IF m2.request_queued /\ m2.send_buffer = <<>> THEN [m2 EXCEPT !.events = "r"] ELSE m2

\* faulty variant of client_read: the response is decoded from the first
\* payload bytes to arrive
client_read_partial(msg, data) ==
    LET m == Read(msg, data)
    IN  IF ~m.raised /\ m.header # PyNone /\ m.response = PyNone
        THEN LET length == m.header.content_length
             IN  IF m.receive_buffer = <<>> THEN m
                 ELSE IF "json" \notin DOMAIN m.receive_buffer[1]
                 THEN [m EXCEPT !.receive_buffer = Drop(@, length), !.raised = TRUE]
                 ELSE [m EXCEPT !.receive_buffer = Drop(@, length),
                                !.response = decode_json(m.receive_buffer),
                                !.parsed = @ + 1]
        ELSE m

\* ClientSideMessage.read up to the decoding of the response; the callback
\* and close() follow when response is set
client_read(msg, data) ==
    LET m == Read(msg, data)
    IN  IF ~m.raised /\ m.header # PyNone /\ m.response = PyNone
        THEN LET length == m.header.content_length
             IN  IF ~(Len(m.receive_buffer) >= length) THEN m
                 ELSE IF ~Decodable(Take(m.receive_buffer, length))
                 THEN [m EXCEPT !.receive_buffer = Drop(@, length), !.raised = TRUE]
                 ELSE [m EXCEPT !.receive_buffer = Drop(@, length),
                                !.response = decode_json(Take(m.receive_buffer, length)),
                                !.parsed = @ + 1]
        ELSE m

(***************************************************************************)
(* State.                                                                  *)
(***************************************************************************)
VARIABLES
    clientDir,  \* the monitored directory
    serverDir,  \* the directory the server manages
    pc,         \* DirectoryMonitor.run: "start" before enumerate_remote_directory, then "watching"
    stack,      \* the active _dispatch calls, innermost last, each with its ClientSideMessage
    net,        \* per nesting depth of _dispatch: the TCP connection and its ServerSideMessage
    log,        \* history: the content of every request dispatched, in order
    synch,      \* history: what the last _directory_synch saw and computed
    patch,      \* history: what the last _update_file_by_recipe saw and built
    lastEvent,  \* history: the last file-system event delivered to the dispatcher
    payload,    \* the recipe_info of the UpdateFile request a peer repeats
    applied,    \* history: the file content after each update_file(payload)
    handled,    \* history: the requests a handler was given, each with the directory
                \* before and after and the outcome
    peer,       \* a raw peer: the frame it sends, what is left to send, and the
                \* history of the socket calls of the session it talks to
    blockLists  \* a file given to the block functions, and what they returned

vars == <<clientDir, serverDir, pc, stack, net, log, synch, patch, lastEvent, payload, applied, handled, peer, blockLists>>

\* no raw peer: both ends of every connection are the program's
NoPeer == [role |-> "none"]

\* how many would-block outcomes the session facing a raw peer may meet
MaxBlocked == 1

\* history: a recv, or a send that would block, of the session that faces
\* the raw peer; of the sessions that face raw clients, the would-block
\* outcomes are counted
Note(role, call) ==
    peer' = IF peer.role = role THEN [peer EXCEPT !.calls = Append(@, call)]
            ELSE IF peer.role = "clients" /\ call \in {"recv_block", "send_block"}
            THEN [peer EXCEPT !.blocked = @ + 1]
            ELSE peer
CanBlock(role) ==
    /\ peer.role = role =>
        Cardinality({i \in DOMAIN peer.calls : peer.calls[i] \in {"recv_block", "send_block"}}) < MaxBlocked
    /\ peer.role = "clients" => peer.blocked < MaxBlocked

\* the initial contents of a directory: file a takes every content of
\* FileContents, the others a few
FileContents == {s \in ByteStrings(MaxFileLen) : \A i \in 1..(Len(s) - 1) : s[i] = 0}
ContentsAt(path) ==
    IF path = <<"root", "a">> THEN FileContents
    ELSE IF path = <<"root", "b">> THEN {<<0>>, <<1>>}
    ELSE {<<1>>}
Directories ==
    {d \in UNION {[S -> FileContents] : S \in SUBSET Range(AllPaths)} :
        \A p \in DOMAIN d : d[p] \in ContentsAt(p)}

\* how many writable notifications a server connection may need to drain
\* its response (partial sends)
MaxWrites == 2

\* _dispatch nests at most three deep: enumerate -> FileRecipe -> UpdateFile
Depths == {1, 2, 3}

\* a TCP connection: the bytes in flight each way, the bytes ever sent each
\* way (history), which ends have closed, and the server's session
IdleConnection ==
    [state |-> "idle", c2s |-> <<>>, s2c |-> <<>>, sent_c |-> <<>>, sent_s |-> <<>>,
     cfin |-> FALSE, sfin |-> FALSE, srv |-> ServerSideMessage]
\* _open_connection: connect_ex on a fresh non-blocking socket
_open_connection == [IdleConnection EXCEPT !.state = "pending"]

Top == stack[Len(stack)]
Pop == SubSeq(stack, 1, Len(stack) - 1)
SetTop(frame) == [stack EXCEPT ![Len(stack)] = frame]
Frame(request) ==
    [request |-> request, phase |-> "io", todo |-> <<>>, msg |-> ClientSideMessage(request)]
\* message.close() in the frame on top of stack s, at the client's end
Closed(s) ==
    [s EXCEPT ![Len(s)] = [@ EXCEPT !.phase = "closed", !.todo = <<>>, !.msg = close(@)]]
ClientClosed(wire) == [wire EXCEPT ![Len(stack)].cfin = TRUE]

\* _dispatch(request): a new connection on top of the calls already active
Dispatch(base, request) ==
    /\ stack' = Append(base, Frame(request))
    /\ net' = [net EXCEPT ![Len(base) + 1] = _open_connection]
    /\ log' = Append(log, request.content)

InitCommon ==
    /\ pc = "start"
    /\ stack = <<>>
    /\ net = [d \in Depths |-> IdleConnection]
    /\ log = <<>>
    /\ synch = <<>>
    /\ patch = <<>>
    /\ lastEvent = <<>>
    /\ payload = <<>>
    /\ applied = <<>>
    /\ handled = <<>>
    /\ peer = NoPeer
    /\ blockLists = <<>>

InitSynch ==
    /\ clientDir \in Directories
    /\ serverDir \in Directories
    /\ InitCommon

\* DirectoryMonitor.run: the remote listing is requested before the observer starts
StartSynch ==
    /\ pc = "start"
    /\ pc' = "watching"
    /\ Dispatch(stack, enumerate_remote_directory)
    /\ UNCHANGED <<clientDir, serverDir, synch, patch, lastEvent, payload, applied, handled, peer, blockLists>>

\* ServerSideMessage.write runs handle_request on every writable notification
\* while the response drains: the directory after n notifications
RECURSIVE HandleTimes(_, _, _)
HandleTimes(dir, request, n) ==
    IF n = 0 THEN dir
    ELSE HandleTimes(handle_request(dir, BlockSize, request).dir, request, n - 1)

\* ClientSideMessage._process_response_content: the frame `frame` got
\* `response`, the connections being `wire` after the read; it waits in its callback with the calls still to make, or the
\* callback raised (a response that is no dict) and _dispatch closed the
\* connection
Respond(frame, wire, response) ==
    IF response = PyFalse
    THEN /\ stack' = Closed(SetTop(frame))
         /\ net' = ClientClosed(wire)
         /\ UNCHANGED synch
    ELSE /\ stack' = SetTop([frame EXCEPT !.phase = "callback",
                                          !.todo = on_response_callback(response, clientDir)])
         /\ net' = wire
         /\ synch' = IF response.action = ENUMERATE_REMOTE_DIR_ACTION
                     THEN <<[remote |-> response.file_info,
                             local |-> enumerate_directory(clientDir, response.block_size),
                             lists |-> directory_synch_lists(response.file_info,
                                          enumerate_directory(clientDir, response.block_size))]>>
                     ELSE synch

\* one whole exchange on the innermost connection: the request travels, the
\* server handles it and answers (or raises and closes), the client reads
Exchange ==
    /\ stack # <<>>
    /\ Top.phase = "io"
    /\ LET request == JsonRequest(Top.request.content)
           first == handle_request(serverDir, BlockSize, request)
       IN  IF first.raised
           THEN /\ stack' = Closed(stack)
                /\ net' = ClientClosed(net)
                /\ UNCHANGED <<serverDir, synch>>
           ELSE \E n \in 1..MaxWrites :
                /\ serverDir' = HandleTimes(serverDir, request, n)
                /\ Respond(Top, net, JsonResponse(first.result).response)
    /\ UNCHANGED <<clientDir, pc, log, patch, lastEvent, payload, applied, handled, peer, blockLists>>

\* the next call of the running callback
CallbackStep ==
    /\ stack # <<>>
    /\ Top.phase = "callback"
    /\ Top.todo # <<>>
    /\ LET call == Head(Top.todo)
           base == SetTop([Top EXCEPT !.todo = Tail(@)])
       IN  CASE call.op = "update_file_request" ->
                    /\ Dispatch(base, update_file_request(call.filename))
                    /\ UNCHANGED patch
              [] call.op = "delete_file_request" ->
                    /\ Dispatch(base, delete_file_request(call.filename))
                    /\ UNCHANGED patch
              [] call.op = "create_new_file_request" ->
                    \* RequestDispatcherException when the file is not in the
                    \* directory itself: it ends the callback, and _dispatch
                    \* closes the connection
                    /\ IF Exists(clientDir, call.filename)
                       THEN Dispatch(base, new_file_request(clientDir, call.filename))
                       ELSE /\ stack' = Closed(stack)
                            /\ net' = ClientClosed(net)
                            /\ UNCHANGED log
                    /\ UNCHANGED patch
              [] call.op = "_update_file_by_recipe" ->
                    IF Exists(clientDir, call.recipe_info.filename)
                    THEN LET request == update_by_recipe_request(clientDir, call.recipe_info)
                         IN  /\ Dispatch(base, request)
                             /\ patch' = <<[recipe_info |-> call.recipe_info,
                                            hash_blocks |-> create_hashed_block_list(
                                                clientDir[Root(call.recipe_info.filename)],
                                                call.recipe_info.block_size),
                                            request |-> request.content]>>
                    ELSE stack' = base /\ UNCHANGED <<net, log, patch>>
    /\ UNCHANGED <<clientDir, serverDir, pc, synch, lastEvent, payload, applied, handled, peer, blockLists>>

\* the callback is over: process_response closes the connection
CallbackReturn ==
    /\ stack # <<>>
    /\ Top.phase = "callback"
    /\ Top.todo = <<>>
    /\ stack' = Closed(stack)
    /\ net' = ClientClosed(net)
    /\ UNCHANGED <<clientDir, serverDir, pc, log, synch, patch, lastEvent, payload, applied, handled, peer, blockLists>>

\* _dispatch: the selector's map is empty, the loop ends and the call returns
DispatchReturn ==
    /\ stack # <<>>
    /\ Top.msg.sock = "closed"
    /\ stack' = Pop
    /\ UNCHANGED <<clientDir, serverDir, pc, net, log, synch, patch, lastEvent, payload, applied, handled, peer, blockLists>>

(***************************************************************************)
(* File-system events (client/client.py MonitoredFileEventHandler): the    *)
(* change to the monitored directory and the handler's call, once the      *)
(* observer runs and no dispatch is active.                                *)
(***************************************************************************)
Watching == pc = "watching" /\ stack = <<>> /\ lastEvent = <<>>
Event(type, filename) ==
    lastEvent' = <<[type |-> type, filename |-> filename, is_directory |-> FALSE,
                    on_both |-> Exists(clientDir, filename) /\ Exists(serverDir, filename),
                    server |-> serverDir]>>

on_created ==
    /\ Watching
    /\ \E filename \in Names : \E bytes \in ContentsAt(Root(filename)) :
        /\ ~Exists(clientDir, filename)
        /\ clientDir' = WriteFile(clientDir, Root(filename), bytes)
        /\ Dispatch(stack, new_file_request(clientDir', filename))
        /\ Event("created", filename)
    /\ UNCHANGED <<serverDir, pc, synch, patch, payload, applied, handled, peer, blockLists>>

on_modified ==
    /\ Watching
    /\ \E filename \in Names : \E bytes \in ContentsAt(Root(filename)) :
        /\ Exists(clientDir, filename)
        /\ clientDir' = WriteFile(clientDir, Root(filename), bytes)
        /\ Dispatch(stack, update_file_request(filename))
        /\ Event("modified", filename)
    /\ UNCHANGED <<serverDir, pc, synch, patch, payload, applied, handled, peer, blockLists>>

on_moved ==
    /\ Watching
    /\ \E src \in Names : \E dest \in Names \ {src} :
        /\ Exists(clientDir, src)
        /\ clientDir' = RemoveFile(WriteFile(clientDir, Root(dest), clientDir[Root(src)]), Root(src))
        /\ Dispatch(stack, move_file_request(src, dest))
        /\ Event("moved", src)
    /\ UNCHANGED <<serverDir, pc, synch, patch, payload, applied, handled, peer, blockLists>>

on_deleted ==
    /\ Watching
    /\ \E filename \in Names :
        /\ Exists(clientDir, filename)
        /\ clientDir' = RemoveFile(clientDir, Root(filename))
        /\ Dispatch(stack, delete_file_request(filename))
        /\ Event("deleted", filename)
    /\ UNCHANGED <<serverDir, pc, synch, patch, payload, applied, handled, peer, blockLists>>

\* an event on the subdirectory sub (it arrives with its file, its file is
\* rewritten, it is renamed out of sight, it is removed): every handler
\* returns at `if event.is_directory`
SubFile == <<"sub", "a">>
on_directory_event ==
    /\ Watching
    /\ \E type \in {"created", "modified", "moved", "deleted"} :
        /\ (type = "created") = (SubFile \notin DOMAIN clientDir)
        /\ clientDir' = CASE type = "created" -> WriteFile(clientDir, SubFile, <<1>>)
                           [] type = "modified" -> WriteFile(clientDir, SubFile, <<0>>)
                           [] OTHER -> RemoveFile(clientDir, SubFile)
        /\ lastEvent' = <<[type |-> type, filename |-> "sub", is_directory |-> TRUE,
                           on_both |-> FALSE, server |-> serverDir]>>
    /\ UNCHANGED <<serverDir, pc, stack, net, log, synch, patch, payload, applied, handled, peer, blockLists>>

FileEvent == on_created \/ on_modified \/ on_moved \/ on_deleted \/ on_directory_event

(***************************************************************************)
(* SpecSynch: the dispatcher and the handler, one exchange per step.       *)
(***************************************************************************)
NextSynch ==
    StartSynch \/ Exchange \/ CallbackStep \/ CallbackReturn \/ DispatchReturn \/ FileEvent
SpecSynch == InitSynch /\ [][NextSynch]_vars

(***************************************************************************)
(* Spec: the same dispatcher and handler with every exchange carried byte  *)
(* by byte over its connection, by the two event loops                     *)
(* (RequestDispatcher._dispatch, server.run_server).  A send or a recv may *)
(* take any part of the bytes available.  While its request is not fully   *)
(* sent a client socket has nothing to read (the server answers a whole    *)
(* request only), so its event is a write; afterwards it is registered for *)
(* reads only.                                                             *)
(***************************************************************************)
\* directories small enough for the byte-level exchanges
NetDirectories == {d \in Directories : \A p \in DOMAIN d : Len(d[p]) = 1}

Init ==
    /\ clientDir \in NetDirectories
    /\ serverDir \in NetDirectories
    /\ InitCommon

\* Python's truth value of a decoded request
Truthy(obj) == obj # PyNone /\ obj # PyFalse

\* ClientSideMessage.process_events(EVENT_WRITE)
ClientWrite ==
    /\ stack # <<>>
    /\ Top.phase = "io"
    /\ Top.msg.sock = "open"
    /\ Top.msg.events = "rw"
    /\ LET queued == IF ~Top.msg.request_queued THEN queue_request(Top.msg) ELSE Top.msg
       IN  \E sent \in 0..Len(queued.send_buffer) :
            /\ sent = 0 => CanBlock("client")
            /\ stack' = SetTop([Top EXCEPT !.msg = client_write(Top.msg, sent)])
            /\ net' = [net EXCEPT ![Len(stack)].c2s = @ \o Take(queued.send_buffer, sent),
                                  ![Len(stack)].sent_c = @ \o Take(queued.send_buffer, sent)]
            /\ IF sent = 0 THEN Note("client", "send_block") ELSE UNCHANGED peer
    /\ UNCHANGED <<clientDir, serverDir, pc, log, synch, patch, lastEvent, payload, applied, handled, blockLists>>

\* ClientSideMessage.process_events(EVENT_READ): some bytes of the response,
\* or the end of the stream (recv returns b"", RuntimeError, _dispatch closes)
ClientRead ==
    /\ stack # <<>>
    /\ Top.phase = "io"
    /\ Top.msg.sock = "open"
    /\ Top.msg.events \in {"r", "rw"}
    /\ Note("client", IF net[Len(stack)].s2c = <<>> THEN "recv_eof" ELSE "recv")
    /\ LET conn == net[Len(stack)]
       IN  \/ /\ conn.s2c = <<>>
              /\ conn.sfin
              /\ LET m == PeerClosed(Top.msg)
                 IN  IF m.raised
                     THEN /\ stack' = Closed(SetTop([Top EXCEPT !.msg = m]))
                          /\ net' = ClientClosed(net)
                     ELSE /\ stack' = SetTop([Top EXCEPT !.msg = client_read(m, <<>>)])
                          /\ net' = net
              /\ UNCHANGED synch
           \/ \E k \in 1..Len(conn.s2c) :
                LET m == client_read(Top.msg, Take(conn.s2c, k))
                    wire == [net EXCEPT ![Len(stack)].s2c = Drop(@, k)]
                IN  IF m.raised
                    THEN /\ stack' = Closed(SetTop([Top EXCEPT !.msg = m]))
                         /\ net' = ClientClosed(wire)
                         /\ UNCHANGED synch
                    ELSE IF m.response # PyNone
                    THEN Respond([Top EXCEPT !.msg = m], wire, m.response.response)
                    ELSE /\ stack' = SetTop([Top EXCEPT !.msg = m])
                         /\ net' = wire
                         /\ UNCHANGED synch
    /\ UNCHANGED <<clientDir, serverDir, pc, log, patch, lastEvent, payload, applied, handled, blockLists>>

\* server.accept_connection: a ServerSideMessage registered for reads
accept_connection(d) ==
    /\ net[d].state = "pending"
    /\ net' = [net EXCEPT ![d].state = "accepted"]
    /\ UNCHANGED <<clientDir, serverDir, pc, stack, log, synch, patch, lastEvent, payload, applied, handled, peer, blockLists>>

\* faulty variant of ServerSession: an exception leaves the message open
ServerSession_unclosed(d, wire, m) ==
    [wire EXCEPT ![d].srv = m,
                 ![d].sfin = m.sock = "closed"]

\* faulty variant of ServerSession: an exception ends every session
ServerSession_close_all(d, wire, m) ==
    IF m.raised
    THEN [e \in DOMAIN wire |->
            IF e = d THEN [wire[e] EXCEPT !.srv = close(m), !.sfin = TRUE]
            ELSE IF wire[e].state = "accepted" THEN [wire[e] EXCEPT !.srv = close(@), !.sfin = TRUE]
            ELSE wire[e]]
    ELSE [wire EXCEPT ![d].srv = m, ![d].sfin = m.sock = "closed"]

\* run_server: message.close() after an exception or a drained response
ServerSession(d, wire, m) ==
    [wire EXCEPT ![d].srv = IF m.raised THEN close(m) ELSE m,
                 ![d].sfin = m.raised \/ m.sock = "closed"]

\* ServerSideMessage.process_events(EVENT_READ)
ServerRead(d) ==
    /\ net[d].state = "accepted"
    /\ net[d].srv.sock = "open"
    /\ net[d].srv.events = "r"
    /\ Note("server", IF net[d].c2s = <<>> THEN "recv_eof" ELSE "recv")
    /\ \/ /\ net[d].c2s = <<>>
          /\ net[d].cfin
          /\ LET m == PeerClosed(net[d].srv)
             IN  net' = ServerSession(d, net, IF m.raised THEN m ELSE server_read(m, <<>>))
       \/ \E k \in 1..Len(net[d].c2s) :
            net' = ServerSession(d, [net EXCEPT ![d].c2s = Drop(@, k)],
                                 server_read(net[d].srv, Take(net[d].c2s, k)))
    /\ UNCHANGED <<clientDir, serverDir, pc, stack, log, synch, patch, lastEvent, payload, applied, handled, blockLists>>

\* ServerSideMessage.process_events(EVENT_WRITE): handle_request runs on
\* every call, the response is built on the first, then some of it is sent
ServerWrite(d) ==
    /\ net[d].state = "accepted"
    /\ net[d].srv.sock = "open"
    /\ net[d].srv.events = "w"
    /\ LET srv == IF Truthy(net[d].srv.request) /\ peer.role = "clients"
                  THEN [net[d].srv EXCEPT !.actions = @ + 1]
                  ELSE net[d].srv
           r == handle_request(serverDir, BlockSize, srv.request)
       IN  IF ~Truthy(srv.request)
           THEN UNCHANGED <<serverDir, net, peer>>
           ELSE /\ serverDir' = r.dir
                /\ IF r.raised
                   THEN /\ net' = ServerSession(d, net, [srv EXCEPT !.raised = TRUE])
                        /\ UNCHANGED peer
                   ELSE LET m == IF ~srv.response_created THEN create_response(srv, r.result) ELSE srv
                        IN  \E sent \in 0..Len(m.send_buffer) :
                                /\ sent = 0 => CanBlock("server")
                                /\ net' = ServerSession(d,
                                          [net EXCEPT ![d].s2c = @ \o Take(m.send_buffer, sent),
                                                      ![d].sent_s = @ \o Take(m.send_buffer, sent)],
                                          server__write(m, sent))
                                /\ IF sent = 0 THEN Note("server", "send_block") ELSE UNCHANGED peer
    /\ UNCHANGED <<clientDir, pc, stack, log, synch, patch, lastEvent, payload, applied, handled, blockLists>>

Server == \E d \in Depths : accept_connection(d) \/ ServerRead(d) \/ ServerWrite(d)

Next ==
    \/ StartSynch
    \/ ClientWrite
    \/ ClientRead
    \/ CallbackStep
    \/ CallbackReturn
    \/ DispatchReturn
    \/ FileEvent
    \/ Server
Spec == Init /\ [][Next]_vars

\* SpecLive: the synchronisation at start and the requests it chains, with
\* both event loops running: while a socket is ready or a call can go on,
\* some step is taken (each loop selects again until it is stopped)
\* either directory holds one file at most
LiveDirectories == {d \in NetDirectories : Cardinality(DOMAIN d) <= 1}
InitLive ==
    /\ clientDir \in LiveDirectories
    /\ serverDir \in LiveDirectories
    /\ InitCommon
NextLive ==
    \/ StartSynch
    \/ ClientWrite
    \/ ClientRead
    \/ CallbackStep
    \/ CallbackReturn
    \/ DispatchReturn
    \/ Server
SpecLive == InitLive /\ [][NextLive]_vars /\ WF_vars(NextLive)

(***************************************************************************)
(* SpecUpdate: FileActionHandler.update_file on its own.  A peer sends the *)
(* same UpdateFile request, with any block indices and block lengths, to a *)
(* server holding any file a; applied records the file before and after    *)
(* each application.                                                       *)
(***************************************************************************)
\* the highest block index of a payload, and how often the request is sent
MaxIndex == 2
MaxRepeat == 2

\* the blocks of a payload: any length from 0 to one more than the block size
PayloadBlocks == UNION {[1..n -> {1}] : n \in 0..(BlockSize + 1)}
Payloads ==
    UNION {[{StrKey(i) : i \in S} -> {b64encode(block) : block \in PayloadBlocks}] :
            S \in SUBSET (0..MaxIndex)}

InitUpdate ==
    /\ clientDir = <<>>
    /\ \E content \in FileContents :
        /\ serverDir = WriteFile(<<>>, Root("a"), content)
        /\ applied = <<content>>
    /\ \E blocks \in Payloads :
        payload = <<[filename |-> "a", block_size |-> BlockSize, blocks |-> blocks]>>
    /\ pc = "start"
    /\ stack = <<>>
    /\ net = [d \in Depths |-> IdleConnection]
    /\ log = <<>>
    /\ synch = <<>>
    /\ patch = <<>>
    /\ lastEvent = <<>>
    /\ handled = <<>>
    /\ peer = NoPeer
    /\ blockLists = <<>>

\* handle_request for the UpdateFile request
UpdateFile ==
    /\ Len(applied) <= MaxRepeat
    /\ LET request == create_request(UPDATED_FILE_ACTION, [recipe_info |-> payload[1]]).content
           r == handle_request(serverDir, BlockSize, request)
       IN  /\ serverDir' = r.dir
           /\ applied' = Append(applied, r.dir[Root("a")])
    /\ UNCHANGED <<clientDir, pc, stack, net, log, synch, patch, lastEvent, payload, handled, peer, blockLists>>

NextUpdate == UpdateFile
SpecUpdate == InitUpdate /\ [][NextUpdate]_vars

(***************************************************************************)
(* SpecHandler: FileActionHandler.handle_request on its own.  A peer sends *)
(* any request of the six actions to a server holding any directory, then  *)
(* sends the same request again; handled records each call.                *)
(***************************************************************************)
\* the requests a peer sends, as the dispatcher builds them
HandlerRequests ==
    {enumerate_remote_directory.content}
    \cup {create_request(NEW_FILE_ACTION, [filename |-> f, filedata |-> b64encode(c)]).content :
            f \in Names, c \in {<<>>, <<0>>, <<1>>}}
    \cup {move_file_request(f, g).content : f \in Names, g \in Names}
    \cup {delete_file_request(f).content : f \in Names}
    \cup {update_file_request(f).content : f \in Names}
    \cup {create_request(UPDATED_FILE_ACTION,
                         [recipe_info |-> [filename |-> f, block_size |-> BlockSize, blocks |-> blocks]]).content :
            f \in Names,
            blocks \in {<<>>, (IntKey(0) :> b64encode(<<1>>)), (IntKey(1) :> b64encode(<<1, 1>>))}}
    \cup {create_request(action, [filename |-> "a"]).content : action \in {0, 7}}

InitHandler ==
    /\ clientDir = <<>>
    /\ serverDir \in Directories
    /\ InitCommon

\* one call of handle_request, recorded
Handle(request) ==
    LET r == handle_request(serverDir, BlockSize, JsonRequest(request))
    IN  /\ serverDir' = r.dir
        /\ handled' = Append(handled, [request |-> request, before |-> serverDir,
                                       raised |-> r.raised, result |-> r.result, after |-> r.dir])

HandleRequest ==
    /\ handled = <<>>
    /\ \E request \in HandlerRequests : Handle(request)
    /\ UNCHANGED <<clientDir, pc, stack, net, log, synch, patch, lastEvent, payload, applied, peer, blockLists>>

RepeatRequest ==
    /\ handled # <<>>
    /\ Len(handled) < MaxRepeat
    /\ Handle(handled[1].request)
    /\ UNCHANGED <<clientDir, pc, stack, net, log, synch, patch, lastEvent, payload, applied, peer, blockLists>>

NextHandler == HandleRequest \/ RepeatRequest
SpecHandler == InitHandler /\ [][NextHandler]_vars

(***************************************************************************)
(* SpecFrame: one session of common/message.py facing a raw peer.  The     *)
(* peer sends the bytes of one frame, well formed or not, in any pieces,   *)
(* and closes when it likes.  In the role "server" the session is a        *)
(* ServerSideMessage under run_server and the frame carries a request; in  *)
(* the role "client" it is the ClientSideMessage of a _dispatch call and   *)
(* the frame, sent once the request has arrived, carries a response.  A    *)
(* recv on a socket with nothing to read raises BlockingIOError.           *)
(***************************************************************************)
\* a byte that belongs to no JSON text
Junk == [junk |-> 0]

PeerKinds ==
    {"valid", "no_byteorder", "no_content_length", "no_content_encoding",
     "bad_header", "short_header", "bad_payload"}
Encodings == {"utf-8", "ascii"}

\* the frame of a kind: create_message's, or one with a header that lacks a
\* field, a header or a payload that is no JSON text, or a header length
\* one short of the header
PeerFrame(kind, content, content_encoding) ==
    LET content_bytes == IF kind = "bad_payload" THEN [i \in 1..JsonLen(content) |-> Junk]
                         ELSE encode_json(content)
        header == [byteorder |-> "little", content_encoding |-> content_encoding,
                   content_length |-> Len(content_bytes)]
        Without(field) == [f \in DOMAIN header \ {field} |-> header[f]]
        header_bytes == CASE kind = "no_byteorder" -> encode_json(Without("byteorder"))
                          [] kind = "no_content_length" -> encode_json(Without("content_length"))
                          [] kind = "no_content_encoding" -> encode_json(Without("content_encoding"))
                          [] kind = "bad_header" -> [i \in 1..HeaderBytes |-> Junk]
                          [] OTHER -> encode_json(header)
        length == IF kind = "short_header" THEN Len(header_bytes) - 1 ELSE Len(header_bytes)
    IN  IF kind = "valid" THEN create_message(content_bytes, content_encoding)
        ELSE PackH(length) \o header_bytes \o content_bytes

\* the server's directory, the request of the exchange and its response
FrameServerDir == WriteFile(<<>>, Root("a"), <<1>>)
FrameRequest == delete_file_request("a")
FrameResponse == handle_request(FrameServerDir, BlockSize, JsonRequest(FrameRequest.content)).result

InitFrame ==
    /\ clientDir = <<>>
    /\ serverDir = FrameServerDir
    /\ pc = "watching"
    /\ synch = <<>>
    /\ patch = <<>>
    /\ lastEvent = <<>>
    /\ payload = <<>>
    /\ applied = <<>>
    /\ handled = <<>>
    /\ blockLists = <<>>
    /\ \E role \in {"server", "client"} : \E kind \in PeerKinds : \E content_encoding \in Encodings :
        LET content == IF role = "server" THEN FrameRequest.content ELSE FrameResponse
            frame == PeerFrame(kind, content, content_encoding)
        IN  /\ peer = [role |-> role, kind |-> kind, content_encoding |-> content_encoding,
                       content |-> content, frame |-> frame, rest |-> frame, calls |-> <<>>]
            /\ stack = IF role = "server" THEN <<>> ELSE <<Frame(FrameRequest)>>
            /\ log = IF role = "server" THEN <<>> ELSE <<FrameRequest.content>>
            /\ net = [d \in Depths |->
                        IF d # 1 THEN IdleConnection
                        ELSE IF role = "server" THEN _open_connection
                        ELSE [_open_connection EXCEPT !.state = "peer"]]

\* the peer sends some of the bytes it has left; as a server, once the whole
\* request has been sent to it
PeerSend ==
    /\ peer.rest # <<>>
    /\ IF peer.role = "server" THEN ~net[1].cfin
       ELSE /\ ~net[1].sfin
            /\ net[1].sent_c = create_message(encode_json(FrameRequest.content), FrameRequest.encoding)
    /\ \E k \in 1..Len(peer.rest) :
        /\ peer' = [peer EXCEPT !.rest = Drop(@, k)]
        /\ net' = IF peer.role = "server"
                  THEN [net EXCEPT ![1].c2s = @ \o Take(peer.rest, k), ![1].sent_c = @ \o Take(peer.rest, k)]
                  ELSE [net EXCEPT ![1].s2c = @ \o Take(peer.rest, k), ![1].sent_s = @ \o Take(peer.rest, k)]
    /\ UNCHANGED <<clientDir, serverDir, pc, stack, log, synch, patch, lastEvent, payload, applied, handled, blockLists>>

\* the peer closes its socket
PeerClose ==
    /\ IF peer.role = "server" THEN ~net[1].cfin ELSE ~net[1].sfin
    /\ net' = IF peer.role = "server" THEN [net EXCEPT ![1].cfin = TRUE]
              ELSE [net EXCEPT ![1].sfin = TRUE]
    /\ UNCHANGED <<clientDir, serverDir, pc, stack, log, synch, patch, lastEvent, payload, applied, handled, peer, blockLists>>

\* ServerSideMessage.process_events(EVENT_READ) when recv raises BlockingIOError
ServerReadBlocked(d) ==
    /\ net[d].state = "accepted"
    /\ net[d].srv.sock = "open"
    /\ net[d].srv.events = "r"
    /\ net[d].c2s = <<>>
    /\ ~net[d].cfin
    /\ CanBlock("server")
    /\ Note("server", "recv_block")
    /\ net' = ServerSession(d, net, server_read(net[d].srv, <<>>))
    /\ UNCHANGED <<clientDir, serverDir, pc, stack, log, synch, patch, lastEvent, payload, applied, handled, blockLists>>

\* ClientSideMessage.process_events(EVENT_READ) when recv raises BlockingIOError
ClientReadBlocked ==
    /\ stack # <<>>
    /\ Top.phase = "io"
    /\ Top.msg.sock = "open"
    /\ Top.msg.events \in {"r", "rw"}
    /\ net[Len(stack)].s2c = <<>>
    /\ ~net[Len(stack)].sfin
    /\ CanBlock("client")
    /\ Note("client", "recv_block")
    /\ LET m == client_read(Top.msg, <<>>)
       IN  IF m.raised
           THEN /\ stack' = Closed(SetTop([Top EXCEPT !.msg = m]))
                /\ net' = ClientClosed(net)
           ELSE /\ stack' = SetTop([Top EXCEPT !.msg = m])
                /\ net' = net
    /\ UNCHANGED <<clientDir, serverDir, pc, log, synch, patch, lastEvent, payload, applied, handled, blockLists>>

NextFrame ==
    \/ PeerSend
    \/ PeerClose
    \/ accept_connection(1)
    \/ ServerRead(1)
    \/ ServerReadBlocked(1)
    \/ ServerWrite(1)
    \/ ClientWrite
    \/ ClientRead
    \/ ClientReadBlocked
    \/ CallbackReturn
SpecFrame == InitFrame /\ [][NextFrame]_vars

(***************************************************************************)
(* SpecServer: server.run_server with several connections at once.  Raw    *)
(* clients connect and send one frame each: a request, a frame whose       *)
(* payload is the JSON value null or false, or a frame whose payload is no *)
(* JSON text.  A KeyboardInterrupt may arrive once, while the loop waits   *)
(* in select or while it processes the events of a connection.  pc is the  *)
(* loop: "serving" or "stopped".                                           *)
(***************************************************************************)
Conns == {1, 2}

ServerPayloads ==
    {delete_file_request("a").content,
     create_request(NEW_FILE_ACTION, [filename |-> "a", filedata |-> b64encode(<<0>>)]).content,
     PyNone, PyFalse}
ServerFrames ==
    {create_message(encode_json(content), "utf-8") : content \in ServerPayloads}
    \cup {PeerFrame("bad_payload", delete_file_request("a").content, "utf-8")}

InitServer ==
    /\ clientDir = <<>>
    /\ serverDir \in {<<>>, FrameServerDir}
    /\ pc = "serving"
    /\ stack = <<>>
    /\ net = [d \in Depths |-> IdleConnection]
    /\ log = <<>>
    /\ synch = <<>>
    /\ patch = <<>>
    /\ lastEvent = <<>>
    /\ payload = <<>>
    /\ applied = <<>>
    /\ handled = <<>>
    /\ blockLists = <<>>
    /\ \E frames \in [Conns -> ServerFrames] :
        peer = [role |-> "clients", frames |-> frames, blocked |-> 0, interrupted |-> FALSE]

\* a client connects and sends its frame
PeerConnect ==
    /\ pc = "serving"
    /\ \E d \in Conns :
        /\ net[d].state = "idle"
        /\ net' = [net EXCEPT ![d] = [_open_connection EXCEPT !.c2s = peer.frames[d],
                                                              !.sent_c = peer.frames[d]]]
    /\ UNCHANGED <<clientDir, serverDir, pc, stack, log, synch, patch, lastEvent, payload, applied, handled, peer, blockLists>>

\* run_server: one readiness event of the loop
ServeAccept == pc = "serving" /\ \E d \in Conns : accept_connection(d)
ServeRead == pc = "serving" /\ \E d \in Conns : ServerRead(d)
ServeWrite == pc = "serving" /\ \E d \in Conns : ServerWrite(d)

\* KeyboardInterrupt outside process_events: the loop is left and
\* selector.close() drops every registration, and with it every socket
KeyboardInterruptInSelect ==
    /\ pc = "serving"
    /\ ~peer.interrupted
    /\ pc' = "stopped"
    /\ peer' = [peer EXCEPT !.interrupted = TRUE]
    /\ net' = [d \in DOMAIN net |->
                IF net[d].state = "accepted"
                THEN [net[d] EXCEPT !.srv = close(@), !.sfin = TRUE]
                ELSE net[d]]
    /\ UNCHANGED <<clientDir, serverDir, stack, log, synch, patch, lastEvent, payload, applied, handled, blockLists>>

\* KeyboardInterrupt inside message.process_events: message.close(), then
\* `break` leaves the for loop over the events, not the while loop
KeyboardInterruptInEvents ==
    /\ pc = "serving"
    /\ ~peer.interrupted
    /\ \E d \in Conns :
        /\ net[d].state = "accepted"
        /\ net[d].srv.sock = "open"
        /\ net[d].srv.events = "w" \/ net[d].c2s # <<>>
        /\ net' = [net EXCEPT ![d].srv = close(@), ![d].sfin = TRUE]
    /\ peer' = [peer EXCEPT !.interrupted = TRUE]
    /\ UNCHANGED <<clientDir, serverDir, pc, stack, log, synch, patch, lastEvent, payload, applied, handled, blockLists>>

NextServer ==
    \/ PeerConnect
    \/ ServeAccept
    \/ ServeRead
    \/ ServeWrite
    \/ KeyboardInterruptInSelect
    \/ KeyboardInterruptInEvents
SpecServer == InitServer /\ [][NextServer]_vars

\* the loop keeps taking the events that are ready
SpecServerFair ==
    /\ SpecServer
    /\ \A d \in Conns :
        /\ WF_vars(pc = "serving" /\ accept_connection(d))
        /\ WF_vars(pc = "serving" /\ ServerRead(d))
        /\ WF_vars(pc = "serving" /\ ServerWrite(d))

(***************************************************************************)
(* SpecBlocks: the block functions of common/fileactions.py on their own.  *)
(* Any file, any file of the same length to compare it with, any block     *)
(* size from 1; blockLists records what each function returned.            *)
(***************************************************************************)
MaxBlockSize == BlockSize + 1

InitBlocks ==
    /\ clientDir = <<>>
    /\ serverDir = <<>>
    /\ pc = "start"
    /\ stack = <<>>
    /\ net = [d \in Depths |-> IdleConnection]
    /\ log = <<>>
    /\ synch = <<>>
    /\ patch = <<>>
    /\ lastEvent = <<>>
    /\ payload = <<>>
    /\ applied = <<>>
    /\ handled = <<>>
    /\ peer = NoPeer
    /\ \E file \in ByteStrings(MaxFileLen) : \E changed \in ByteStrings(MaxFileLen) :
       \E block_size \in 1..MaxBlockSize :
        /\ Len(changed) = Len(file)
        /\ blockLists = [file |-> file, changed |-> changed, block_size |-> block_size,
                         blocks |-> <<>>, rebuilt |-> <<>>, hashed |-> <<>>]

\* create_block_list on the file
CreateBlockList ==
    /\ blockLists.blocks = <<>>
    /\ blockLists' = [blockLists EXCEPT
                        !.blocks = <<create_block_list(blockLists.file, blockLists.block_size)>>]
    /\ UNCHANGED <<clientDir, serverDir, pc, stack, net, log, synch, patch, lastEvent, payload, applied, handled, peer>>

\* create_file_from_blks on the block list
CreateFileFromBlks ==
    /\ blockLists.blocks # <<>>
    /\ blockLists.rebuilt = <<>>
    /\ blockLists' = [blockLists EXCEPT !.rebuilt = <<create_file_from_blks(blockLists.blocks[1])>>]
    /\ UNCHANGED <<clientDir, serverDir, pc, stack, net, log, synch, patch, lastEvent, payload, applied, handled, peer>>

\* create_hashed_block_list on the file, then on the file it is compared with
CreateHashedBlockList ==
    /\ blockLists.hashed = <<>>
    /\ blockLists' = [blockLists EXCEPT
                        !.hashed = <<create_hashed_block_list(blockLists.file, blockLists.block_size),
                                     create_hashed_block_list(blockLists.changed, blockLists.block_size)>>]
    /\ UNCHANGED <<clientDir, serverDir, pc, stack, net, log, synch, patch, lastEvent, payload, applied, handled, peer>>

NextBlocks == CreateBlockList \/ CreateFileFromBlks \/ CreateHashedBlockList
SpecBlocks == InitBlocks /\ [][NextBlocks]_vars

(***************************************************************************)
(* Claims about the connections.                                           *)
(***************************************************************************)
\* the one frame a sequence of frame bytes ends in
FrameOf(bytes) == create_message(encode_json(bytes[Len(bytes)].json), "utf-8")

\* C1: on every connection the client queues its request frame exactly once
\* and sends nothing but that frame; the server decodes at most one request,
\* has nothing left to parse after it, builds at most one response frame and
\* sends nothing but that frame; the client parses at most one response.
C1_OneExchangePerConnection ==
    /\ \A d \in 1..Len(stack) :
        LET msg == stack[d].msg
        IN  /\ msg.queued <= 1
            /\ msg.parsed <= 1
            /\ (msg.events # "rw") => msg.queued = 1
            /\ net[d].sent_c \o msg.send_buffer
                  = IF msg.queued = 0 THEN <<>>
                    ELSE create_message(encode_json(stack[d].request.content), "utf-8")
    /\ \A d \in Depths :
        LET srv == net[d].srv
            out == net[d].sent_s \o srv.send_buffer
        IN  /\ srv.decoded <= 1
            /\ srv.created <= 1
            /\ srv.decoded = 1 => (srv.receive_buffer = <<>> /\ net[d].c2s = <<>>)
            /\ srv.created = 0 => net[d].sent_s = <<>>
            /\ srv.created = 1 => out = FrameOf(out)
\* the innermost chained exchange (UpdateFile) is complete at both ends, the
\* outer connections still in their callbacks
C1_Witness ==
    \E d \in 1..Len(stack) :
        /\ stack[d].msg.queued = 1
        /\ stack[d].msg.parsed = 1
        /\ net[d].srv.decoded = 1
        /\ net[d].srv.created = 1
        /\ net[d].srv.sock = "closed"
        /\ stack[d].request.content.action = UPDATED_FILE_ACTION

\* C31: an open client connection is registered for writes only until its
\* request frame is completely sent, and for reads only from then on.
C31_WriteOnlyUntilSent ==
    \A d \in 1..Len(stack) :
        LET msg == stack[d].msg
            frame == create_message(encode_json(stack[d].request.content), stack[d].request.encoding)
        IN  msg.sock = "open" =>
                msg.events = IF net[d].sent_c = frame THEN "r" ELSE "w"

\* C32: a server session that has not raised is closed exactly when it has
\* built its response and its send buffer is empty; until then it stays
\* registered for writes, and what it has sent followed by its send buffer
\* is the response frame, so every send takes the next unsent bytes.
C32_ServerClosesWhenDrained ==
    \A d \in Depths :
        LET srv == net[d].srv
            out == net[d].sent_s \o srv.send_buffer
        IN  ~srv.raised =>
                /\ (srv.sock = "closed") = (srv.created = 1 /\ srv.send_buffer = <<>>)
                /\ srv.created = 1 =>
                    /\ out = FrameOf(out)
                    /\ srv.send_buffer = Drop(FrameOf(out), Len(net[d].sent_s))
                    /\ srv.sock = "open" => srv.events = "w"
                /\ srv.sock = "closed" => net[d].sent_s = FrameOf(net[d].sent_s)
\* part of a response is sent, the rest waits in the open session
C32_Witness ==
    \E d \in Depths :
        /\ ~net[d].srv.raised
        /\ net[d].srv.created = 1
        /\ net[d].sent_s # <<>>
        /\ net[d].srv.send_buffer # <<>>
        /\ net[d].srv.sock = "open"

(***************************************************************************)
(* C38: on the client the response callback is invoked at most once per    *)
(* connection, and only after the request frame has been completely sent   *)
(* and a complete response frame (header plus content-length payload      *)
(* bytes) has been received and decoded; the connection is closed after    *)
(* the callback, and a closed connection never changes again.              *)
(***************************************************************************)
RequestFrame(d) ==
    create_message(encode_json(stack[d].request.content), stack[d].request.encoding)
\* the bytes connection d has taken from its socket
TakenByClient(d) == Len(net[d].sent_s) - Len(net[d].s2c)
C37_DispatchReturns ==
    /\ \A k \in Depths : (Len(stack) >= k) ~> (Len(stack) < k)
    /\ [][Len(stack') < Len(stack) => Top.msg.sock = "closed" /\ Top.msg.events = ""]_vars
\* the outermost call returned after calls chained from its callback
C37_Witness ==
    /\ stack = <<>>
    /\ pc = "watching"
    /\ Len(log) >= 2
    /\ \A d \in 1..2 : net[d].cfin

\* C2: at any moment at most one client connection is open, the requests
\* chained from a response callback included.
C2_OneConnectionAtATime ==
    Cardinality({d \in 1..Len(stack) : stack[d].msg.sock = "open"}) <= 1

(***************************************************************************)
(* Claims about the exchanges a file-system event starts.                  *)
(***************************************************************************)
\* the request of the last event has run to its end: its connection is
\* closed at the client, or _dispatch has returned
EventDone(type) ==
    /\ lastEvent # <<>>
    /\ lastEvent[1].type = type
    /\ ~lastEvent[1].is_directory
    /\ (stack = <<>> \/ Top.phase = "closed")

C16_MoveFileRenames ==
    EventDone("moved") =>
        LET src == log[Len(log)].data.source_filename
            dest == log[Len(log)].data.destination_filename
            before == lastEvent[1].server
        IN  (Exists(before, src) /\ ~Exists(before, dest)) =>
                /\ Exists(serverDir, dest)
                /\ serverDir[Root(dest)] = before[Root(src)]
                /\ ~Exists(serverDir, src)
\* such a move has run
C16_Witness ==
    /\ EventDone("moved")
    /\ Exists(lastEvent[1].server, log[Len(log)].data.source_filename)
    /\ ~Exists(lastEvent[1].server, log[Len(log)].data.destination_filename)
    /\ stack # <<>>
    /\ Top.msg.response # PyNone

\* connection d carries a FileRecipe request for a file the server lacks
RecipeOfMissing(d) ==
    /\ d <= Len(stack)
    /\ stack[d].request.content.action = FILE_RECIPE_ACTION
    /\ ~Exists(serverDir, stack[d].request.content.data.filename)

\* C19: a FileRecipe for a file missing on the server gets no response: the
\* server sends no byte, closes and unregisters the connection when it
\* handles the request, and leaves its directory unchanged; the client
\* closes only after the server did, never runs the callback and sends no
\* UpdateFile.
C19_NoResponseForMissing ==
    /\ [](\A d \in Depths : RecipeOfMissing(d) =>
            /\ net[d].sent_s = <<>>
            /\ net[d].srv.created = 0
            /\ net[d].srv.sock = "closed" => (net[d].srv.events = "" /\ net[d].sfin)
            /\ stack[d].msg.parsed = 0
            /\ stack[d].phase # "callback"
            /\ stack[d].phase = "closed" => net[d].srv.sock = "closed"
            /\ d = Len(stack)
            /\ log[Len(log)] = stack[d].request.content)
    /\ [][\A d \in Depths :
            (RecipeOfMissing(d) /\ net[d].srv.events = "w" /\ net'[d] # net[d]) =>
                /\ net'[d].srv.sock = "closed"
                /\ serverDir' = serverDir]_vars
\* the server has torn the connection down and the client has closed its end
C19_Witness ==
    \E d \in Depths :
        /\ RecipeOfMissing(d)
        /\ net[d].srv.request # PyNone
        /\ net[d].srv.sock = "closed"
        /\ stack[d].phase = "closed"

(***************************************************************************)
(* Claims about the block functions.                                       *)
(***************************************************************************)
\* the bytes of block i of a file of the given block size
BlockAt(file, block_size, i) ==
    SubSeq(file, i * block_size + 1,
           IF (i + 1) * block_size < Len(file) THEN (i + 1) * block_size ELSE Len(file))
\* ceil(size / block_size)
BlockCount(file, block_size) == (Len(file) + block_size - 1) \div block_size

\* C22: for every file and block size of at least 1, create_file_from_blks
\* of create_block_list of the file writes exactly the bytes of the file.
C22_BlockRoundTrip ==
    blockLists.rebuilt # <<>> => blockLists.rebuilt[1] = blockLists.file
\* a file of several blocks, the last one short, has been rebuilt
C22_Witness ==
    /\ blockLists.rebuilt # <<>>
    /\ Len(blockLists.file) > blockLists.block_size
    /\ Len(blockLists.file) % blockLists.block_size # 0
    /\ Cardinality(DOMAIN blockLists.blocks[1]) > 1

\* C23: create_hashed_block_list of a file of size s with block size n has
\* exactly ceil(s/n) entries, under the keys 0..k-1 (none for an empty
\* file); entry i is the hash of the n bytes from offset i*n, the last
\* entry the hash of the bytes that remain.
C23_HashedBlockCount ==
    blockLists.hashed # <<>> =>
        LET file == blockLists.file
            n == blockLists.block_size
            k == BlockCount(file, n)
            hashes == blockLists.hashed[1]
        IN  /\ DOMAIN hashes = {IntKey(i) : i \in 0..(k - 1)}
            /\ Cardinality(DOMAIN hashes) = k
            /\ \A i \in 0..(k - 1) :
                /\ hashes[IntKey(i)] = Sha256(BlockAt(file, n, i))
                /\ i < k - 1 => Len(BlockAt(file, n, i)) = n
                /\ Len(BlockAt(file, n, i)) \in 1..n
\* a file whose size is no multiple of the block size has been hashed in
\* several blocks
C23_Witness ==
    /\ blockLists.hashed # <<>>
    /\ Len(blockLists.file) % blockLists.block_size # 0
    /\ Cardinality(DOMAIN blockLists.hashed[1]) > 1

\* C24: when bytes of a file change and its length does not, the hash of
\* block i changes exactly when an offset of block i holds a changed byte.
C24_OnlyChangedBlocksRehash ==
    blockLists.hashed # <<>> =>
        LET file == blockLists.file
            changed == blockLists.changed
            n == blockLists.block_size
            before == blockLists.hashed[1]
            after == blockLists.hashed[2]
        IN  /\ DOMAIN after = DOMAIN before
            /\ \A key \in DOMAIN before :
                (after[key] # before[key]) <=>
                    (\E offset \in 0..(Len(file) - 1) :
                        /\ offset \div n = key[2]
                        /\ changed[offset + 1] # file[offset + 1])
\* one byte of the second block differs: the first hash is the same, the
\* second is not
C24_Witness ==
    /\ blockLists.hashed # <<>>
    /\ Cardinality(DOMAIN blockLists.hashed[1]) > 1
    /\ blockLists.hashed[1][IntKey(0)] = blockLists.hashed[2][IntKey(0)]
    /\ blockLists.hashed[1][IntKey(1)] # blockLists.hashed[2][IntKey(1)]

(***************************************************************************)
(* Claims about framing, on the session that faces the raw peer.           *)
(***************************************************************************)
UnderTest == IF peer.role = "server" THEN net[1].srv ELSE stack[1].msg
\* the decoded payload: the server's request, the client's response
Body(msg) == IF peer.role = "server" THEN msg.request ELSE msg.response
\* every byte recv has returned to the session, in order
Received ==
    IF peer.role = "server" THEN Take(net[1].sent_c, Len(net[1].sent_c) - Len(net[1].c2s))
    ELSE Take(net[1].sent_s, Len(net[1].sent_s) - Len(net[1].s2c))
\* the session after one read that returns all of the bytes
SingleRead(bytes) ==
    IF peer.role = "server" THEN server_read(ServerSideMessage, bytes)
    ELSE client_read(ClientSideMessage(FrameRequest), bytes)
LastCall == peer.calls[Len(peer.calls)]

\* C25: once the bytes of create_message(payload, encoding) have been
\* received, the parsed header carries that encoding and the length of the
\* payload, the decoded payload is the one that was encoded, and the
\* receive buffer is empty.
C25_FrameRoundTrip ==
    (peer.kind = "valid" /\ Received = peer.frame) =>
        /\ UnderTest.header_length = <<HeaderBytes>>
        /\ UnderTest.header = [byteorder |-> "little",
                               content_encoding |-> peer.content_encoding,
                               content_length |-> Len(encode_json(peer.content))]
        /\ Body(UnderTest) = Json(peer.content)
        /\ encode_json(Body(UnderTest)) = encode_json(peer.content)
        /\ UnderTest.receive_buffer = <<>>
\* a server session has received a whole ascii frame
C25_Witness ==
    /\ peer.role = "server"
    /\ peer.kind = "valid"
    /\ peer.content_encoding = "ascii"
    /\ Received = peer.frame
    /\ net[1].srv.request = JsonRequest(FrameRequest.content)

\* C26: in a session that has not raised, what has been parsed was cut from
\* the front of the bytes received, in order: 2 bytes for the header
\* length, header-length bytes for the header, content-length bytes for the
\* payload, each only once that many bytes had arrived; the receive buffer
\* is exactly the bytes received after these slices.
C26_GuardedPull ==
    LET msg == UnderTest
        has_length == msg.header_length # <<>>
        has_header == msg.header # PyNone
        has_body == Body(msg) # PyNone
        after_length == IF has_length THEN 2 ELSE 0
        after_header == after_length + (IF has_header THEN msg.header_length[1] ELSE 0)
        after_body == after_header + (IF has_body THEN msg.header.content_length ELSE 0)
    IN  (peer.role # "none" /\ ~msg.raised) =>
            /\ Len(Received) >= after_body
            /\ msg.receive_buffer = Drop(Received, after_body)
            /\ has_header => has_length
            /\ has_body => has_header
            /\ has_length => msg.header_length[1] = UnpackH(Take(Received, 2))
            /\ has_header => msg.header = decode_json(SubSeq(Received, after_length + 1, after_header))
            /\ has_body => Body(msg) = decode_json(SubSeq(Received, after_header + 1, after_body))
\* a header is parsed and one byte of a longer payload waits in the buffer
C26_Witness ==
    /\ peer.role = "client"
    /\ ~UnderTest.raised
    /\ UnderTest.header # PyNone
    /\ UnderTest.response = PyNone
    /\ Len(UnderTest.receive_buffer) = 1
    /\ UnderTest.header.content_length > 1

\* C27: however the bytes of a valid frame are split over the receive
\* attempts, would-block attempts included, the session holds the header
\* length, header, decoded payload and buffer that one read of the bytes
\* received so far leaves; at the end of the frame, those of one read of
\* the whole frame.
C27_FragmentationIndependent ==
    peer.kind = "valid" =>
        LET one == SingleRead(Received)
        IN  /\ UnderTest.header_length = one.header_length
            /\ UnderTest.header = one.header
            /\ Body(UnderTest) = Body(one)
            /\ UnderTest.receive_buffer = one.receive_buffer
            /\ Received = peer.frame => Body(UnderTest) # PyNone
\* a whole frame has been decoded after a read, a would-block and a read
C27_Witness ==
    /\ peer.kind = "valid"
    /\ Received = peer.frame
    /\ Body(UnderTest) # PyNone
    /\ \E i, j, k \in DOMAIN peer.calls :
        /\ i < j /\ j < k
        /\ peer.calls[i] = "recv" /\ peer.calls[j] = "recv_block" /\ peer.calls[k] = "recv"

\* C28: a frame whose header lacks a required field, or whose header or
\* payload is no JSON text, never yields a request or a response: the
\* server runs no action and builds no response, the client calls no
\* callback; once the frame has arrived the session has raised, and a
\* session that raised is closed and out of the selector.
C28_MalformedFrameCloses ==
    (peer.role # "none" /\ peer.kind # "valid") =>
        /\ Body(UnderTest) = PyNone
        /\ peer.role = "server" =>
            /\ serverDir = FrameServerDir
            /\ net[1].srv.created = 0
            /\ net[1].sent_s = <<>>
        /\ peer.role = "client" =>
            /\ stack[1].phase # "callback"
            /\ stack[1].msg.parsed = 0
            /\ synch = <<>>
        /\ Received = peer.frame => UnderTest.raised
        /\ UnderTest.raised => UnderTest.sock = "closed" /\ UnderTest.events = ""
\* a server session raised on the bytes of a header without content-length
C28_Witness ==
    /\ peer.role = "server"
    /\ peer.kind = "no_content_length"
    /\ peer.calls # <<>>
    /\ LastCall = "recv"
    /\ net[1].srv.raised
    /\ net[1].srv.header # PyNone
    /\ net[1].srv.sock = "closed"

\* C29: a recv that returns no bytes closes the session and takes it out of
\* the selector, whatever it was waiting for, and parses nothing: buffer,
\* header length, header and payload are as they were.
C29_ZeroBytesCloses ==
    [][(peer.role # "none" /\ peer'.calls # peer.calls /\ peer'.calls[Len(peer'.calls)] = "recv_eof") =>
            /\ UnderTest' = close(PeerClosed(UnderTest))
            /\ UnderTest'.sock = "closed"
            /\ UnderTest'.events = ""
            /\ UnderTest'.receive_buffer = UnderTest.receive_buffer
            /\ UnderTest'.header = UnderTest.header
            /\ Body(UnderTest') = Body(UnderTest)
            /\ peer.role = "client" => stack'[1].phase = "closed"]_vars
\* the peer closed while a client session held part of a response
C29_Witness ==
    /\ peer.role = "client"
    /\ peer.calls # <<>>
    /\ LastCall = "recv_eof"
    /\ UnderTest.sock = "closed"
    /\ UnderTest.receive_buffer # <<>>
    /\ UnderTest.header # PyNone

\* the session as it is when _write makes its send attempt: write() has
\* queued the request, or built the response, if it had not yet
AtSend(msg) ==
    IF peer.role = "server"
    THEN IF Truthy(msg.request) /\ ~msg.response_created
         THEN create_response(msg, handle_request(serverDir, BlockSize, msg.request).result)
         ELSE msg
    ELSE IF ~msg.request_queued THEN queue_request(msg) ELSE msg

\* C30: a step makes at most one recv or send attempt; a recv that would
\* block leaves the whole session as it was, a send that would block leaves
\* it as it was when the attempt was made, and no byte is put on or taken
\* off the connection: the session stays open and registered as before.
C30_WouldBlockSwallowed ==
    [][(peer.role # "none" /\ peer'.calls # peer.calls) =>
            /\ Len(peer'.calls) = Len(peer.calls) + 1
            /\ peer'.calls[Len(peer'.calls)] = "recv_block" => UnderTest' = UnderTest
            /\ peer'.calls[Len(peer'.calls)] = "send_block" =>
                /\ UnderTest' = AtSend(UnderTest)
                /\ UnderTest'.receive_buffer = UnderTest.receive_buffer
                /\ UnderTest'.header = UnderTest.header
                /\ Body(UnderTest') = Body(UnderTest)
            /\ peer'.calls[Len(peer'.calls)] \in {"recv_block", "send_block"} =>
                /\ UnderTest'.sock = "open"
                /\ UnderTest'.events = UnderTest.events
                /\ Received' = Received
                /\ net'[1].sent_c = net[1].sent_c
                /\ net'[1].sent_s = net[1].sent_s]_vars
\* a recv would have blocked while part of a frame was buffered
C30_Witness ==
    /\ peer.role # "none"
    /\ peer.calls # <<>>
    /\ LastCall = "recv_block"
    /\ UnderTest.sock = "open"
    /\ UnderTest.receive_buffer # <<>>

(***************************************************************************)
(* Claims about the server's event loop, on connections from raw clients.  *)
(***************************************************************************)
\* the session of connection d
Srv(d) == net[d].srv
Accepted(d) == net[d].state = "accepted"

(***************************************************************************)
(* C33: per-connection faults are isolated on the server.  The step in     *)
(* which processing the events of one connection raises an error closes    *)
(* and unregisters that connection, leaves every other connection (its     *)
(* buffers, phase and registration) as it was and leaves the loop serving: *)
(* the loop stops for an interrupt only.                                   *)
(***************************************************************************)
C33_FaultsIsolated ==
    /\ [](pc = "stopped" => peer.interrupted)
    /\ [][\A d \in Conns :
            (~net[d].srv.raised /\ net'[d].srv.raised) =>
                /\ net'[d].srv.sock = "closed"
                /\ net'[d].srv.events = ""
                /\ \A e \in Conns \ {d} : net'[e] = net[e]
                /\ pc' = pc]_vars
\* one connection was closed for its malformed frame while another, half
\* read, is open and the loop serves
C33_Witness ==
    /\ pc = "serving"
    /\ \E d \in Conns, e \in Conns :
        /\ d # e
        /\ Srv(d).raised
        /\ Srv(d).sock = "closed"
        /\ Accepted(e)
        /\ Srv(e).sock = "open"
        /\ Srv(e).header_length # <<>>
        /\ Srv(e).decoded = 0

(***************************************************************************)
(* C34: an interrupt delivered at any point of the server's event loop,    *)
(* while it waits in select or while it processes the events of a          *)
(* connection, stops the loop (a stopped loop processes no event) and      *)
(* closes all open sockets.                                                *)
(***************************************************************************)
C34_InterruptStopsLoop ==
    peer.role = "clients" /\ peer.interrupted =>
        /\ pc = "stopped"
        /\ \A d \in Conns : Accepted(d) => Srv(d).sock = "closed"

(***************************************************************************)
(* C35: for each request decoded on a server connection the action is     *)
(* applied to the managed directory exactly once, however many writable    *)
(* notifications drain the response: handle_request runs no more often     *)
(* than requests were decoded, and once for a response that was sent.      *)
(***************************************************************************)
C35_ActionAppliedOnce ==
    peer.role = "clients" =>
        \A d \in Conns :
            /\ Srv(d).actions <= Srv(d).decoded
            /\ (Srv(d).sock = "closed" /\ Srv(d).response_created /\ Srv(d).send_buffer = <<>>)
                   => Srv(d).actions = 1

(***************************************************************************)
(* C36: server liveness.  Under fair delivery of readiness events, every   *)
(* accepted connection whose payload was decoded, whatever JSON value it   *)
(* is, is eventually closed (after its response, or on an error).          *)
(***************************************************************************)
C36_DecodedEventuallyClosed ==
    \A d \in Conns : (Srv(d).decoded = 1) ~> (Srv(d).sock = "closed")

(***************************************************************************)
(* Claims about update_file.                                               *)
(***************************************************************************)
\* block i of the overlay: the payload's block when it has one, else the
\* file's own bytes at that block
Piece(content, blocks, i) ==
    IF \E k \in DOMAIN blocks : k[2] = i
    THEN b64decode(blocks[CHOOSE k \in DOMAIN blocks : k[2] = i])
    ELSE LET first == i * BlockSize + 1
             last == IF (i + 1) * BlockSize < Len(content) THEN (i + 1) * BlockSize ELSE Len(content)
         IN  IF first > last THEN <<>> ELSE SubSeq(content, first, last)
RECURSIVE Overlay(_, _, _)
Overlay(content, blocks, i) ==
    IF i > MaxIndex /\ i * BlockSize >= Len(content) THEN <<>>
    ELSE Piece(content, blocks, i) \o Overlay(content, blocks, i + 1)

\* C9: UpdateFile rewrites an existing file as the concatenation, in
\* ascending index order, of its own blocks overlaid with the payload's
\* blocks, the payload winning on a shared index; no block of the file whose
\* index is not in the payload is dropped.
C9_OverlayInIndexOrder ==
    \A n \in 2..Len(applied) : applied[n] = Overlay(applied[n - 1], payload[1].blocks, 0)
\* a payload replaced the first block of a file that has a second block the
\* payload does not mention
C9_Witness ==
    /\ Len(applied) >= 2
    /\ Len(applied[1]) > BlockSize
    /\ StrKey(0) \in DOMAIN payload[1].blocks
    /\ StrKey(1) \notin DOMAIN payload[1].blocks
    /\ applied[2] # applied[1]

\* every block of the payload replaces a block of the file of the same length
SameLengthPayload(content, blocks) ==
    \A k \in DOMAIN blocks :
        /\ k[2] + 1 \in DOMAIN ReadBlocks(content, BlockSize)
        /\ Len(b64decode(blocks[k])) = Len(ReadBlocks(content, BlockSize)[k[2] + 1])

\* C11: when every payload block has the length of the block it replaces,
\* update_file leaves the number of blocks, the length of every block and
\* the bytes of every block outside the payload unchanged, and every payload
\* index holds the payload's bytes afterwards.
C11_SameLengthUpdateFrame ==
    \A n \in 2..Len(applied) :
        SameLengthPayload(applied[n - 1], payload[1].blocks) =>
            LET blocks == payload[1].blocks
                before == ReadBlocks(applied[n - 1], BlockSize)
                after == ReadBlocks(applied[n], BlockSize)
            IN  /\ Len(after) = Len(before)
                /\ \A i \in DOMAIN before :
                    /\ Len(after[i]) = Len(before[i])
                    /\ after[i] = IF StrKey(i - 1) \in DOMAIN blocks
                                  THEN b64decode(blocks[StrKey(i - 1)])
                                  ELSE before[i]
\* a same-length payload changed one block of a file of two blocks
C11_Witness ==
    /\ Len(applied) >= 2
    /\ payload[1].blocks # <<>>
    /\ SameLengthPayload(applied[1], payload[1].blocks)
    /\ Len(ReadBlocks(applied[1], BlockSize)) = 2
    /\ \E i \in 0..1 : StrKey(i) \notin DOMAIN payload[1].blocks
    /\ applied[2] # applied[1]

\* C10: applying the same UpdateFile payload twice leaves the same file
\* content as applying it once.
C10_Idempotent ==
    Len(applied) >= 3 => applied[3] = applied[2]

(***************************************************************************)
(* Claims about the handler's operations.                                  *)
(***************************************************************************)
\* the recorded calls of one action
Calls(action) == {n \in DOMAIN handled : handled[n].request.action = action}

\* C12: NewFile for a filename that already exists reports the failure and
\* leaves the existing file and the rest of the directory unchanged.
C12_NewFileNeverOverwrites ==
    \A n \in Calls(NEW_FILE_ACTION) :
        LET h == handled[n]
        IN  Exists(h.before, h.request.data.filename) =>
                /\ ~h.raised
                /\ h.result.response = [action |-> NEW_FILE_ACTION,
                                        msg |-> "already exists, cannot save as new"]
                /\ h.after = h.before
\* a NewFile arrived for an existing file with other bytes than the file's
C12_Witness ==
    \E n \in Calls(NEW_FILE_ACTION) :
        /\ Exists(handled[n].before, handled[n].request.data.filename)
        /\ b64decode(handled[n].request.data.filedata)
              # handled[n].before[Root(handled[n].request.data.filename)]

\* C14: MoveFile fails when the source is missing or the destination exists,
\* and then the directory is unchanged.
C14_MoveFileFailsUnchanged ==
    \A n \in Calls(MOVED_FILE_ACTION) :
        LET h == handled[n]
        IN  (~Exists(h.before, h.request.data.source_filename)
                \/ Exists(h.before, h.request.data.destination_filename)) =>
                /\ ~h.raised
                /\ h.result.response # [action |-> MOVED_FILE_ACTION, msg |-> "Successfully moved file"]
                /\ h.after = h.before
\* a MoveFile arrived whose source exists and whose destination, another
\* name, exists too
C14_Witness ==
    \E n \in Calls(MOVED_FILE_ACTION) :
        /\ handled[n].request.data.source_filename # handled[n].request.data.destination_filename
        /\ Exists(handled[n].before, handled[n].request.data.source_filename)
        /\ Exists(handled[n].before, handled[n].request.data.destination_filename)

\* C15: every outcome of NewFile, MoveFile, DeleteFile and UpdateFile is a
\* response object {response: {action: <the request's action code>, ...}}.
C15_StructuredOutcome ==
    \A n \in DOMAIN handled :
        LET h == handled[n]
        IN  h.request.action \in {NEW_FILE_ACTION, MOVED_FILE_ACTION,
                                  DELETED_FILE_ACTION, UPDATED_FILE_ACTION} =>
                /\ ~h.raised
                /\ "action" \in DOMAIN h.result.response
                /\ h.result.response.action = h.request.action

\* C39: a request whose action code is none of 1..6 changes nothing in the
\* directory and is answered with a response object.
C39_UnknownActionAnswered ==
    \A n \in DOMAIN handled :
        LET h == handled[n]
        IN  h.request.action \notin 1..6 =>
                /\ h.after = h.before
                /\ ~h.raised
                /\ "response" \in DOMAIN h.result

C18_UpdateFileNeverCreates ==
    \A n \in Calls(UPDATED_FILE_ACTION) :
        LET h == handled[n]
        IN  ~Exists(h.before, h.request.data.recipe_info.filename) =>
                /\ ~h.raised
                /\ h.result.response = [action |-> UPDATED_FILE_ACTION,
                                        msg |-> "doesn't exist and cannot be updated"]
                /\ h.after = h.before
\* an UpdateFile with a block arrived for a missing file
C18_Witness ==
    \E n \in Calls(UPDATED_FILE_ACTION) :
        /\ ~Exists(handled[n].before, handled[n].request.data.recipe_info.filename)
        /\ handled[n].request.data.recipe_info.blocks # <<>>

\* C20: EnumerateDirectory always succeeds and returns the handler's block
\* size with exactly one entry (filename, size, whole-file hash) per file
\* located directly in the directory; a file of a subdirectory is not listed.
C20_ListingNotRecursive ==
    \A n \in Calls(ENUMERATE_REMOTE_DIR_ACTION) :
        LET h == handled[n]
            direct == {p \in DOMAIN h.before : p[1] = "root"}
        IN  /\ ~h.raised
            /\ h.result.response.action = ENUMERATE_REMOTE_DIR_ACTION
            /\ h.result.response.block_size = BlockSize
            /\ Len(h.result.response.file_info) = Cardinality(direct)
            /\ Range(h.result.response.file_info) = {FileEntry(h.before, p, BlockSize) : p \in direct}

(***************************************************************************)
(* Claims about the initial synchronisation and the update exchange.       *)
(***************************************************************************)
\* enumerate_remote_directory has returned and no event has been delivered yet
SynchDone == pc = "watching" /\ stack = <<>> /\ lastEvent = <<>>

\* neither directory holds a file in a subdirectory
NoSubdirectories == \A p \in DOMAIN clientDir \cup DOMAIN serverDir : p[1] = "root"

\* C3: once the EnumerateDirectory exchange and every request it issued have
\* completed, the server directory's listing (filename, size, whole-file hash
\* of every file) equals the client directory's, whatever the two directories
\* held at the start (stated for directories of plain files).
C3_ListingsEqualAfterSynch ==
    (SynchDone /\ NoSubdirectories) =>
        enumerate_directory(serverDir, BlockSize) = enumerate_directory(clientDir, BlockSize)

\* C4: after a file present on both sides is modified on the client and the
\* FileRecipe -> UpdateFile exchange has completed, the server's copy has the
\* same whole-file hash as the client's.
C4_UpdatedFileEqual ==
    (stack = <<>> /\ lastEvent # <<>> /\ lastEvent[1].type = "modified" /\ lastEvent[1].on_both)
        => LET filename == lastEvent[1].filename
           IN  /\ Exists(serverDir, filename)
               /\ hash_file(serverDir[Root(filename)], BlockSize)
                    = hash_file(clientDir[Root(filename)], BlockSize)

\* the entries of a listing under one filename, and the requests of one kind
\* dispatched for a filename
EntriesOf(listing, filename) == {e \in Range(listing) : e.filename = filename}
Requests(action, filename) ==
    Cardinality({i \in DOMAIN log : log[i].action = action /\ log[i].data.filename = filename})
RequestsAre(filename, recipes, deletes, news) ==
    /\ Requests(FILE_RECIPE_ACTION, filename) = recipes
    /\ Requests(DELETED_FILE_ACTION, filename) = deletes
    /\ Requests(NEW_FILE_ACTION, filename) = news

\* C5: the reconciler issues, per filename, exactly one update request when
\* the name is on both sides with a differing entry, exactly one DeleteFile
\* when it is only remote, exactly one NewFile when it is only local, and no
\* request when its entries are identical on both sides.
C5_OneRequestPerFilename ==
    (SynchDone /\ synch # <<>>) =>
        \A filename \in Names :
            LET local == EntriesOf(synch[1].local, filename)
                remote == EntriesOf(synch[1].remote, filename)
            IN  /\ (local # {} /\ remote # {} /\ local # remote) => RequestsAre(filename, 1, 0, 0)
                /\ (local = {} /\ remote # {}) => RequestsAre(filename, 0, 1, 0)
                /\ (local # {} /\ remote = {}) => RequestsAre(filename, 0, 0, 1)
                /\ (local # {} /\ local = remote) => RequestsAre(filename, 0, 0, 0)

\* C6: every filename of the two listings falls into exactly one of the
\* buckets same, update, delete-remote, upload.
C6_PartitionExhaustiveDisjoint ==
    synch # <<>> =>
        LET lists == synch[1].lists
            buckets == <<Range(lists.same_on_both), Range(lists.on_both_different),
                         Range(lists.on_remote_only), Range(lists.on_local_only)>>
        IN  \A e \in Range(synch[1].local) \cup Range(synch[1].remote) :
                Cardinality({b \in 1..4 : e.filename \in buckets[b]}) = 1

\* C7: no dispatcher operation and no response callback changes the monitored
\* directory (only the file-system events do), and a filename present only on
\* the remote side is the subject of DeleteFile requests and of no other.
RemoteOnlyNames ==
    IF synch = <<>> THEN {}
    ELSE {e.filename : e \in Range(synch[1].remote)} \ {e.filename : e \in Range(synch[1].local)}
RemoteOnlyDeletedOnly ==
    lastEvent = <<>> =>
        \A i \in DOMAIN log :
            (log[i].action # ENUMERATE_REMOTE_DIR_ACTION
                /\ "filename" \in DOMAIN log[i].data
                /\ log[i].data.filename \in RemoteOnlyNames)
            => log[i].action = DELETED_FILE_ACTION
C7_OneWay ==
    [][/\ (lastEvent' = lastEvent => clientDir' = clientDir)
       /\ RemoteOnlyDeletedOnly']_vars
\* a remote-only file has been dealt with and the synchronisation is over
C7_Witness ==
    /\ SynchDone
    /\ RemoteOnlyNames # {}
    /\ \E i \in DOMAIN log : log[i].action = DELETED_FILE_ACTION /\ log[i].data.filename \in RemoteOnlyNames

\* the hash a recipe holds for block index i, whatever the type of its key
HasIndex(d, i) == \E k \in DOMAIN d : k[2] = i
AtIndex(d, i) == d[CHOOSE k \in DOMAIN d : k[2] = i]

\* C8: the UpdateFile request carries exactly the block indices whose local
\* (index, hash) pair is absent from the received recipe: a block whose hash
\* equals the server's hash at the same index is not sent, a block at an
\* index the server does not have is sent.
C8_OnlyDifferingBlocksSent ==
    patch # <<>> =>
        LET local == patch[1].hash_blocks
            recipe == patch[1].recipe_info.recipe
            sent == patch[1].request.data.recipe_info.blocks
        IN  \A i \in 0..MaxFileLen :
                HasIndex(sent, i) <=>
                    /\ HasIndex(local, i)
                    /\ ~(HasIndex(recipe, i) /\ AtIndex(recipe, i) = AtIndex(local, i))

====
